---- MODULE Spec2Model ----
(***************************************************************************)
(* A model of filebrowser/sites.py: the per-site action registry, the      *)
(* process-wide site registry, the browse pipeline (filter + pagination)   *)
(* and the upload handler.                                                 *)
(*                                                                         *)
(* Strings that are compared or searched are modelled as sequences of      *)
(* character codes (1 = "a", 2 = "b", ...), so that Python's               *)
(* lexicographic string order is computed and not assumed.                 *)
(***************************************************************************)
EXTENDS Integers, Sequences, FiniteSets, TLC

(***************************************************************************)
(* Bounds of the model.                                                    *)
(***************************************************************************)
\* how many of the names of NameList may be used as action names
NumNames == 3

\* candidate action names: "b", "ab", "a", "aa", "ba" (as character codes)
NameList == << <<2>>, <<1, 2>>, <<1>>, <<1, 1>>, <<2, 1>> >>

Names == { NameList[i] : i \in 1..NumNames }

\* how many FileBrowserSite objects are constructed besides the default site
MaxSites == 2

\* how many direct calls of register_site are made
MaxDirectRegs == 1

\* how many entries the browsed directory holds at most
MaxListing == 3

\* the largest page number a request asks for
MaxPageArg == 3

\* how many upload requests are made
NumUploads == 2

\* how many alternative names the storage may give a file whose name is taken
MaxAlt == 2

\* how many createdir, delete and detail requests are made
MaxRequests == 2

\* Python's None, where a value (an action, a result) is absent
None == "None"

\* a name argument that is None or the empty string: falsy in
\* `name or action.__name__`
NoName == <<>>

\* the callables handed to add_action: "f" is defined with short_description
\* and applies_to attributes of its own, "g" is a bare function
ActionObjs == {"f", "g"}

\* action.__name__
FuncName(action) == IF action = "f" THEN <<2>> ELSE <<1>>

VARIABLES
    _actions,          \* FileBrowserSite._actions: dict, as its items in insertion order
    _global_actions,   \* FileBrowserSite._global_actions: dict name -> action
    has_attrs,         \* action object -> whether short_description/applies_to are set
    ret,               \* what the last registry call was and what it returned or raised
    lastAdded,         \* history: name -> the action most recently registered under it
    disabledSince,     \* history: names disabled after their most recent registration
    _sites_cache,      \* module dict app_name -> dict site_name -> site
    app_dict,          \* get_resolver(get_urlconf()).app_dict: app_name -> deployed names
    siteObjs,          \* the FileBrowserSite objects constructed, by id: name, app_name
    siteRet,           \* what the last site registry call was and what it returned or raised
    lastRegistered,    \* history: (app_name, site_name) -> the site last registered there
    directRegs,        \* how many direct register_site calls were made
    now,               \* time(): the current time, seconds since the epoch
    tzOffset,          \* seconds local time is ahead of UTC
    dirEntries,        \* the FileObjects of the browsed directory, as the storage lists them
    browseRet,         \* the last browse request: its query and what it produced
    fs,                \* the storage: path -> nothing, a directory or a file
    uploads,           \* the _upload_file requests: position, locals, result
    OVERWRITE_EXISTING,   \* settings.OVERWRITE_EXISTING
    DEFAULT_PERMISSIONS,  \* settings.DEFAULT_PERMISSIONS: "None" or "mode"
    store,             \* the storage createdir, delete and detail work on
    req,               \* the createdir, delete or detail request at hand: position, result
    reqCount           \* how many such requests were made

regVars == <<_actions, _global_actions, has_attrs, ret, lastAdded, disabledSince>>

(***************************************************************************)
(* Python dict, kept as the sequence of its (key, value) items in          *)
(* insertion order.                                                        *)
(***************************************************************************)
DictHas(d, k) == \E i \in 1..Len(d) : d[i][1] = k

DictIndex(d, k) == CHOOSE i \in 1..Len(d) : d[i][1] = k

DictGet(d, k) == d[DictIndex(d, k)][2]

\* d[k] = v: an existing key keeps its position, a new key is appended
DictSet(d, k, v) ==
    IF DictHas(d, k)
    THEN [d EXCEPT ![DictIndex(d, k)] = <<k, v>>]
    ELSE Append(d, <<k, v>>)

\* del d[k] for a key that is present
DictDel(d, k) ==
    LET i == DictIndex(d, k)
    IN  SubSeq(d, 1, i - 1) \o SubSeq(d, i + 1, Len(d))

DictKeys(d) == { d[i][1] : i \in 1..Len(d) }

(***************************************************************************)
(* Python's order on str: lexicographic by code point, a proper prefix     *)
(* first.                                                                  *)
(***************************************************************************)
MinOf(a, b) == IF a <= b THEN a ELSE b

StrLess(s, t) ==
    \E i \in 1..(MinOf(Len(s), Len(t)) + 1) :
        /\ \A j \in 1..(i - 1) : s[j] = t[j]
        /\ \/ i > Len(s) /\ i <= Len(t)
           \/ i <= Len(s) /\ i <= Len(t) /\ s[i] < t[i]

\* insert item x into a list sorted by key, after every item whose key is
\* not greater (list.sort is stable)
RECURSIVE InsertByName(_, _)
InsertByName(x, sorted) ==
    IF sorted = <<>> THEN <<x>>
    ELSE IF StrLess(x[1], Head(sorted)[1])
         THEN <<x>> \o sorted
         ELSE <<Head(sorted)>> \o InsertByName(x, Tail(sorted))

\* res.sort(key=lambda name_func: name_func[0])
RECURSIVE SortByName(_)
SortByName(items) ==
    IF items = <<>> THEN <<>>
    ELSE InsertByName(items[Len(items)], SortByName(SubSeq(items, 1, Len(items) - 1)))

\* the `actions` property without its sort: the items in insertion order
actions_Unsorted == _actions

\* the `actions` property: the enabled actions as a list of (name, func),
\* sorted by name
actions == SortByName(_actions)

\* get_action(name): the registered action, or KeyError
get_action(name) ==
    IF _global_actions[name] = None
    THEN [exc |-> "KeyError", val |-> None]
    ELSE [exc |-> "none", val |-> _global_actions[name]]

\* what the two tables hold under a name (None: nothing)
Prev(name) ==
    [active |-> IF DictHas(_actions, name) THEN DictGet(_actions, name) ELSE None,
     global |-> _global_actions[name]]

NoPrev == [active |-> None, global |-> None]

InitRegistry ==
    /\ _actions = <<>>
    /\ _global_actions = [n \in Names |-> None]
    /\ has_attrs = [a \in ActionObjs |-> a = "f"]
    /\ ret = [op |-> "init", name |-> NoName, exc |-> "none", val |-> None,
             arg |-> None, prev |-> NoPrev]
    /\ lastAdded = [n \in Names |-> None]
    /\ disabledSince = {}

\* add_action as self._actions.setdefault(name, action): an active name
\* keeps the action it has
add_action_SetDefault(action, name) ==
    LET nm == IF name = NoName THEN FuncName(action) ELSE name
    IN  /\ nm \in Names
        /\ has_attrs' = [has_attrs EXCEPT ![action] = TRUE]
        /\ _actions' = IF DictHas(_actions, nm) THEN _actions
                                                ELSE Append(_actions, <<nm, action>>)
        /\ _global_actions' = [_global_actions EXCEPT ![nm] = action]
        /\ ret' = [op |-> "add_action", name |-> nm, exc |-> "none", val |-> None,
                   arg |-> action, prev |-> Prev(nm)]
        /\ lastAdded' = [lastAdded EXCEPT ![nm] = action]
        /\ disabledSince' = disabledSince \ {nm}

\* add_action without `self._global_actions[name] = action`
add_action_ActiveOnly(action, name) ==
    LET nm == IF name = NoName THEN FuncName(action) ELSE name
    IN  /\ nm \in Names
        /\ has_attrs' = [has_attrs EXCEPT ![action] = TRUE]
        /\ _actions' = DictSet(_actions, nm, action)
        /\ ret' = [op |-> "add_action", name |-> nm, exc |-> "none", val |-> None,
                   arg |-> action, prev |-> Prev(nm)]
        /\ lastAdded' = [lastAdded EXCEPT ![nm] = action]
        /\ disabledSince' = disabledSince \ {nm}
        /\ UNCHANGED _global_actions

\* add_action(action, name=None)
add_action(action, name) ==
    LET nm == IF name = NoName THEN FuncName(action) ELSE name
    IN  /\ nm \in Names
        /\ has_attrs' = [has_attrs EXCEPT ![action] = TRUE]
        /\ _actions' = DictSet(_actions, nm, action)
        /\ _global_actions' = [_global_actions EXCEPT ![nm] = action]
        /\ ret' = [op |-> "add_action", name |-> nm, exc |-> "none", val |-> None,
                   arg |-> action, prev |-> Prev(nm)]
        /\ lastAdded' = [lastAdded EXCEPT ![nm] = action]
        /\ disabledSince' = disabledSince \ {nm}

\* disable_action deleting the name from both tables
disable_action_BothTables(name) ==
    IF DictHas(_actions, name)
    THEN /\ _actions' = DictDel(_actions, name)
         /\ _global_actions' = [_global_actions EXCEPT ![name] = None]
         /\ ret' = [op |-> "disable_action", name |-> name, exc |-> "none", val |-> None,
                    arg |-> None, prev |-> NoPrev]
         /\ disabledSince' = disabledSince \cup {name}
         /\ UNCHANGED <<has_attrs, lastAdded>>
    ELSE /\ ret' = [op |-> "disable_action", name |-> name, exc |-> "KeyError", val |-> None,
                    arg |-> None, prev |-> NoPrev]
         /\ UNCHANGED <<_actions, _global_actions, has_attrs, lastAdded, disabledSince>>

\* disable_action as self._actions.pop(name, None): an absent name is ignored
disable_action_Pop(name) ==
    /\ _actions' = IF DictHas(_actions, name) THEN DictDel(_actions, name) ELSE _actions
    /\ ret' = [op |-> "disable_action", name |-> name, exc |-> "none", val |-> None,
                    arg |-> None, prev |-> NoPrev]
    /\ disabledSince' = IF DictHas(_actions, name) THEN disabledSince \cup {name}
                                                  ELSE disabledSince
    /\ UNCHANGED <<_global_actions, has_attrs, lastAdded>>

\* disable_action(name): del self._actions[name]
disable_action(name) ==
    IF DictHas(_actions, name)
    THEN /\ _actions' = DictDel(_actions, name)
         /\ ret' = [op |-> "disable_action", name |-> name, exc |-> "none", val |-> None,
                    arg |-> None, prev |-> NoPrev]
         /\ disabledSince' = disabledSince \cup {name}
         /\ UNCHANGED <<_global_actions, has_attrs, lastAdded>>
    ELSE /\ ret' = [op |-> "disable_action", name |-> name, exc |-> "KeyError", val |-> None,
                    arg |-> None, prev |-> NoPrev]
         /\ UNCHANGED <<_actions, _global_actions, has_attrs, lastAdded, disabledSince>>

\* a call of get_action(name)
GetAction(name) ==
    /\ ret' = [op |-> "get_action", name |-> name,
               exc |-> get_action(name).exc, val |-> get_action(name).val,
               arg |-> None, prev |-> NoPrev]
    /\ UNCHANGED <<_actions, _global_actions, has_attrs, lastAdded, disabledSince>>

\* the file types of the file objects actions are asked about
FileTypes == {"Image", "Document"}

\* action.applies_to(fileobject): "f" brings its own predicate, true of
\* images; "g" has the `lambda x: True` add_action gave it
applies_to(action, fileobject) ==
    IF action = "f" THEN fileobject = "Image" ELSE TRUE

\* the items of a listing whose action applies to fileobject, in the order
\* of the listing
RECURSIVE SelectApplicable(_, _)
SelectApplicable(listing, fileobject) ==
    IF listing = <<>> THEN <<>>
    ELSE IF applies_to(Head(listing)[2], fileobject)
         THEN <<Head(listing)>> \o SelectApplicable(Tail(listing), fileobject)
         ELSE SelectApplicable(Tail(listing), fileobject)

\* applicable_actions without the applies_to test
applicable_actions_NoFilter(fileobject) == actions

\* applicable_actions(fileobject)
applicable_actions(fileobject) == SelectApplicable(actions, fileobject)

\* a call of applicable_actions(fileobject)
ApplicableActions(fileobject) ==
    /\ ret' = [op |-> "applicable_actions", name |-> NoName, exc |-> "none",
               val |-> applicable_actions(fileobject), arg |-> fileobject,
               prev |-> NoPrev]
    /\ UNCHANGED <<_actions, _global_actions, has_attrs, lastAdded, disabledSince>>

\* a read of the `actions` property
ListActions ==
    /\ ret' = [op |-> "actions", name |-> NoName, exc |-> "none", val |-> actions,
               arg |-> None, prev |-> NoPrev]
    /\ UNCHANGED <<_actions, _global_actions, has_attrs, lastAdded, disabledSince>>

(***************************************************************************)
(* The process-wide site registry.                                         *)
(***************************************************************************)
siteVars == <<_sites_cache, app_dict, siteObjs, siteRet, lastRegistered, directRegs>>

AppNames == {"filebrowser", "intranet"}

SiteNames == {"filebrowser", "media"}

\* no site (a key that holds nothing); sites are numbered from 1
NoSite == 0

\* the site constructed at the end of the module: name 'filebrowser', the
\* default app_name
DefaultSite == [name |-> "filebrowser", app_name |-> "filebrowser"]

SiteIds == 1..(MaxSites + 1)

\* d[k] = v on a dict kept as a function
Put(d, k, v) == [x \in DOMAIN d \cup {k} |-> IF x = k THEN v ELSE d[x]]

EmptyDict == [x \in {} |-> NoSite]

SeqElems(q) == { q[i] : i \in 1..Len(q) }

\* register_site keeping an entry that is already there
\* (_sites_cache[app_name].setdefault(site_name, site))
register_site_KeepFirst(cache, app_name, site_name, site) ==
    LET c == IF app_name \notin DOMAIN cache THEN Put(cache, app_name, EmptyDict)
                                              ELSE cache
    IN  IF site_name \in DOMAIN c[app_name] THEN c
        ELSE Put(c, app_name, Put(c[app_name], site_name, site))

\* register_site(app_name, site_name, site): the cache afterwards
register_site(cache, app_name, site_name, site) ==
    LET c == IF app_name \notin DOMAIN cache THEN Put(cache, app_name, EmptyDict)
                                              ELSE cache
    IN  Put(c, app_name, Put(c[app_name], site_name, site))

\* get_site_dict(app_name): the deployed sites of app_name
get_site_dict(app_name) ==
    IF app_name \notin DOMAIN _sites_cache
    THEN [exc |-> "none", val |-> EmptyDict]
    ELSE IF app_name \notin DOMAIN app_dict
    THEN [exc |-> "KeyError", val |-> EmptyDict]
    ELSE LET deployed == SeqElems(app_dict[app_name])
         IN  [exc |-> "none",
              val |-> [k \in DOMAIN _sites_cache[app_name] \cap deployed
                          |-> _sites_cache[app_name][k]]]

\* get_default_site(app_name)
get_default_site(app_name) ==
    IF app_name \notin DOMAIN app_dict
    THEN [exc |-> "KeyError", val |-> NoSite]
    ELSE LET app_list == app_dict[app_name]
             name == IF "filebrowser" \in SeqElems(app_list) THEN "filebrowser"
                                                             ELSE app_list[1]
             d == get_site_dict("filebrowser")
         IN  IF d.exc # "none" \/ name \notin DOMAIN d.val
             THEN [exc |-> "KeyError", val |-> NoSite]
             ELSE [exc |-> "none", val |-> d.val[name]]

\* the state after the module is imported: the default site is constructed
\* and has registered itself; no urlconf is resolved yet
InitSites ==
    /\ siteObjs = <<DefaultSite>>
    /\ _sites_cache = register_site(EmptyDict, "filebrowser", "filebrowser", 1)
    /\ app_dict = [x \in {} |-> <<>>]
    /\ siteRet = [op |-> "init", app |-> "filebrowser", exc |-> "none", val |-> NoSite]
    /\ lastRegistered = [k \in AppNames \X SiteNames |->
                            IF k = <<"filebrowser", "filebrowser">> THEN 1 ELSE NoSite]
    /\ directRegs = 0

\* FileBrowserSite(name, app_name): a new site, which registers itself
NewSite(name, app_name) ==
    /\ Len(siteObjs) < MaxSites + 1
    /\ siteObjs' = Append(siteObjs, [name |-> name, app_name |-> app_name])
    /\ _sites_cache' = register_site(_sites_cache, app_name, name, Len(siteObjs) + 1)
    /\ lastRegistered' = [lastRegistered EXCEPT ![<<app_name, name>>] = Len(siteObjs) + 1]
    /\ siteRet' = [op |-> "register_site", app |-> app_name, exc |-> "none", val |-> NoSite]
    /\ UNCHANGED <<app_dict, directRegs>>

\* a direct call register_site(app_name, site_name, site) with a site that exists
RegisterSite(app_name, site_name, site) ==
    /\ directRegs < MaxDirectRegs
    /\ site \in 1..Len(siteObjs)
    /\ directRegs' = directRegs + 1
    /\ _sites_cache' = register_site(_sites_cache, app_name, site_name, site)
    /\ lastRegistered' = [lastRegistered EXCEPT ![<<app_name, site_name>>] = site]
    /\ siteRet' = [op |-> "register_site", app |-> app_name, exc |-> "none", val |-> NoSite]
    /\ UNCHANGED <<app_dict, siteObjs>>

\* the urlconf includes site.urls = (urlpatterns, app_name, name): the
\* resolver lists the name under the app_name, in urlconf order
Deploy(site) ==
    /\ site \in 1..Len(siteObjs)
    /\ LET o == siteObjs[site]
           cur == IF o.app_name \in DOMAIN app_dict THEN app_dict[o.app_name] ELSE <<>>
       IN  /\ o.name \notin SeqElems(cur)
           /\ app_dict' = Put(app_dict, o.app_name, Append(cur, o.name))
    /\ siteRet' = [op |-> "deploy", app |-> siteObjs[site].app_name, exc |-> "none",
                   val |-> NoSite]
    /\ UNCHANGED <<_sites_cache, siteObjs, lastRegistered, directRegs>>

\* a call of get_default_site(app_name)
GetDefaultSite(app_name) ==
    /\ siteRet' = [op |-> "get_default_site", app |-> app_name,
                   exc |-> get_default_site(app_name).exc,
                   val |-> get_default_site(app_name).val]
    /\ UNCHANGED <<_sites_cache, app_dict, siteObjs, lastRegistered, directRegs>>

(***************************************************************************)
(* browse: the exclusion predicate, the filters, the pagination.           *)
(*                                                                         *)
(* Character codes: 1 "a", 2 "b", 3 "A", 4 "B", 5 ".", 6 "_", 7 "[".       *)
(***************************************************************************)
browseVars == <<now, tzOffset, dirEntries, browseRet>>

\* str.lower()
LowerChar(c) == IF c = 3 THEN 1 ELSE IF c = 4 THEN 2 ELSE c

Lower(str) == [i \in 1..Len(str) |-> LowerChar(str[i])]

\* str.startswith
StartsWith(str, prefix) ==
    Len(prefix) <= Len(str) /\ SubSeq(str, 1, Len(prefix)) = prefix

EndsWith(str, suffix) ==
    Len(suffix) <= Len(str)
    /\ SubSeq(str, Len(str) - Len(suffix) + 1, Len(str)) = suffix

\* `sub in str` on strings
Contains(str, sub) ==
    \E i \in 1..(Len(str) - Len(sub) + 1) : SubSeq(str, i, i + Len(sub) - 1) = sub

\* re.compile(pattern): a pattern with an unclosed "[" does not compile
\* (re.error); the other patterns used here are literals
ValidPattern(pattern) == 7 \notin SeqElems(pattern)

\* re_q.search(text) for a literal pattern
RegexSearch(pattern, text) == Contains(text, pattern)

\* settings.EXCLUDE (default: no patterns)
EXCLUDE == <<>>

\* settings.VERSIONS_BASEDIR: empty, so that versions live beside the originals
VERSIONS_BASEDIR == <<>>

\* the keys of settings.VERSIONS: "b"
VERSIONS == { <<2>> }

\* settings.EXTENSION_LIST: ".a"
EXTENSION_LIST == { <<5, 1>> }

\* settings.SEARCH_TRAVERSE (default)
SEARCH_TRAVERSE == FALSE

\* settings.DEFAULT_SORTING_BY, settings.DEFAULT_SORTING_ORDER (defaults)
DEFAULT_SORTING_BY == "date"

DEFAULT_SORTING_ORDER == "desc"

\* settings.LIST_PER_PAGE
LIST_PER_PAGE == 2

\* filter_browse(item): FALSE for a hidden file, a file matching an EXCLUDE
\* pattern and, unless VERSIONS_BASEDIR is set, a file whose name ends in
\* _<version key><extension> (re.IGNORECASE)
filter_browse(item) ==
    LET hidden == StartsWith(item.filename, <<5>>)
        excluded == \E i \in 1..Len(EXCLUDE) : RegexSearch(EXCLUDE[i], item.filename)
        version == /\ VERSIONS_BASEDIR = <<>>
                   /\ \E k \in VERSIONS, e \in EXTENSION_LIST :
                         EndsWith(Lower(item.filename), Lower(<<6>> \o k \o e))
    IN  ~(hidden \/ excluded \/ version)

(***************************************************************************)
(* gmtime / localtime: the civil date of a count of seconds.               *)
(***************************************************************************)
CivilFromDays(days) ==
    LET z == days + 719468
        era == z \div 146097
        doe == z - era * 146097
        yoe == (doe - doe \div 1460 + doe \div 36524 - doe \div 146096) \div 365
        doy == doe - (365 * yoe + yoe \div 4 - yoe \div 100)
        mp == (5 * doy + 2) \div 153
        d == doy - (153 * mp + 2) \div 5 + 1
        m == IF mp < 10 THEN mp + 3 ELSE mp - 9
        y == yoe + era * 400 + (IF m <= 2 THEN 1 ELSE 0)
    IN  [year |-> y, month |-> m, day |-> d]

\* gmtime(t): year, month, day
gmtime(t) == CivilFromDays(t \div 86400)

\* localtime(): year, month, day of the current local time
localtime == CivilFromDays((now + tzOffset) \div 86400)

\* the seconds of the thismonth and past7days windows
ThisMonthSeconds == 2592000

Past7DaysSeconds == 604800

\* get_filterdate(filter_date, date_time): TRUE for 'true', FALSE for ''
get_filterdate(filter_date, date_time) ==
    LET date == gmtime(date_time)
    IN  \/ /\ filter_date = "today"
           /\ date.year = localtime.year
           /\ date.month = localtime.month
           /\ date.day = localtime.day
        \/ filter_date = "thismonth" /\ date_time >= now - ThisMonthSeconds
        \/ filter_date = "thisyear" /\ date.year = localtime.year
        \/ filter_date = "past7days" /\ date_time >= now - Past7DaysSeconds
        \/ filter_date = ""

\* FileObject.date of a file whose modified time is not known: Python's
\* None, kept apart from every timestamp
NoDate == -1

\* fileobject.date or 0
DateOrZero(date) == IF date = NoDate \/ date = 0 THEN 0 ELSE date

\* the sort key of a FileObject
SortLess(x, y, sorting_by) ==
    IF sorting_by = "filename_lower"
    THEN StrLess(Lower(x.filename), Lower(y.filename))
    ELSE x.date < y.date

RECURSIVE InsertBy(_, _, _)
InsertBy(x, sorted, sorting_by) ==
    IF sorted = <<>> THEN <<x>>
    ELSE IF SortLess(x, Head(sorted), sorting_by)
         THEN <<x>> \o sorted
         ELSE <<Head(sorted)>> \o InsertBy(x, Tail(sorted), sorting_by)

RECURSIVE SortBy(_, _)
SortBy(seq, sorting_by) ==
    IF seq = <<>> THEN <<>>
    ELSE InsertBy(seq[Len(seq)], SortBy(SubSeq(seq, 1, Len(seq) - 1), sorting_by),
                  sorting_by)

Reverse(seq) == [i \in 1..Len(seq) |-> seq[Len(seq) + 1 - i]]

\* the items of seq for which filter_func (filter_browse) is true
RECURSIVE FilterListing(_)
FilterListing(seq) ==
    IF seq = <<>> THEN <<>>
    ELSE (IF filter_browse(Head(seq)) THEN <<Head(seq)>> ELSE <<>>)
           \o FilterListing(Tail(seq))

\* FileListing.files_listing_filtered(): the entries of the directory, sorted
\* by sorting_by (a stable sort), reversed for "desc", without those for
\* which filter_func is false
files_listing_filtered(sorting_by, sorting_order) ==
    LET sorted == SortBy(dirEntries, sorting_by)
        ordered == IF sorting_order = "desc" THEN Reverse(sorted) ELSE sorted
    IN  FilterListing(ordered)

\* the decision of browse's loop for one fileobject, with the override for
\* folders left out
KeepEntry_NoFolderOverride(fileobject, query) ==
    LET passes == /\ (query.filter_type = "" \/ fileobject.filetype = query.filter_type)
                  /\ (query.filter_date = ""
                        \/ get_filterdate(query.filter_date,
                                          DateOrZero(fileobject.date)))
                  /\ (query.type = <<>> \/ Contains(fileobject.format, query.type))
    IN  IF query.q # <<>> /\ ~RegexSearch(Lower(query.q), Lower(fileobject.filename))
        THEN FALSE
        ELSE passes

\* the search deciding alone: `append = bool(re_q.search(...))`
KeepEntry_SearchDecides(fileobject, query) ==
    LET passes == /\ (query.filter_type = "" \/ fileobject.filetype = query.filter_type)
                  /\ (query.filter_date = ""
                        \/ get_filterdate(query.filter_date,
                                          DateOrZero(fileobject.date)))
                  /\ (query.type = <<>> \/ Contains(fileobject.format, query.type))
        searched == IF query.q # <<>>
                    THEN RegexSearch(Lower(query.q), Lower(fileobject.filename))
                    ELSE passes
    IN  IF fileobject.filetype = "Folder" THEN TRUE ELSE searched

\* the decision of browse's loop for one fileobject: `append`
KeepEntry(fileobject, query) ==
    LET passes == /\ (query.filter_type = "" \/ fileobject.filetype = query.filter_type)
                  /\ (query.filter_date = ""
                        \/ get_filterdate(query.filter_date,
                                          DateOrZero(fileobject.date)))
                  /\ (query.type = <<>> \/ Contains(fileobject.format, query.type))
        searched == IF query.q # <<>>
                       /\ ~RegexSearch(Lower(query.q), Lower(fileobject.filename))
                    THEN FALSE
                    ELSE passes
    IN  IF fileobject.filetype = "Folder" THEN TRUE ELSE searched

\* browse's loop over the listing: the fileobjects appended to `files`
RECURSIVE FilterFiles(_, _)
FilterFiles(listing, query) ==
    IF listing = <<>> THEN <<>>
    ELSE (IF KeepEntry(Head(listing), query) THEN <<Head(listing)>> ELSE <<>>)
           \o FilterFiles(Tail(listing), query)

(***************************************************************************)
(* django.core.paginator.Paginator(files, LIST_PER_PAGE), with its         *)
(* defaults orphans = 0 and allow_empty_first_page = True.                 *)
(***************************************************************************)
MaxOf(a, b) == IF a >= b THEN a ELSE b

\* Paginator.num_pages
num_pages(count) == (MaxOf(1, count) + LIST_PER_PAGE - 1) \div LIST_PER_PAGE

\* request.GET.get('p', '1') as Paginator.validate_number reads it
page_nr(p) == IF p.kind = "absent" THEN [kind |-> "int", n |-> 1] ELSE p

\* Paginator.validate_number(number)
validate_number(number, count) ==
    IF number.kind # "int" THEN "PageNotAnInteger"
    ELSE IF number.n < 1 THEN "EmptyPage"
    ELSE IF number.n > num_pages(count) THEN "EmptyPage"
    ELSE "none"

\* Paginator.page(number) for a valid number
PageOf(files, n) ==
    LET bottom == (n - 1) * LIST_PER_PAGE
        top == MinOf(bottom + LIST_PER_PAGE, Len(files))
    IN  [exc |-> "none", number |-> n, object_list |-> SubSeq(files, bottom + 1, top)]

\* p.page(page_nr) with no handler around it
Paginate_NoFallback(files, p) ==
    LET number == page_nr(p)
        exc == validate_number(number, Len(files))
    IN  IF exc = "none"
        THEN PageOf(files, number.n)
        ELSE [exc |-> exc, number |-> 0, object_list |-> <<>>]

\* try: page = p.page(page_nr)
\* except (EmptyPage, InvalidPage): page = p.page(p.num_pages)
Paginate(files, p) ==
    LET number == page_nr(p)
    IN  IF validate_number(number, Len(files)) = "none"
        THEN PageOf(files, number.n)
        ELSE PageOf(files, num_pages(Len(files)))

\* browse(request): what the request produces
browse(query) ==
    LET sorting_by == IF query.o = "" THEN DEFAULT_SORTING_BY ELSE query.o
        sorting_order == IF query.ot = "" THEN DEFAULT_SORTING_ORDER ELSE query.ot
        listing == files_listing_filtered(sorting_by, sorting_order)
        files == FilterFiles(listing, query)
        page == Paginate(files, query.p)
    IN  IF query.q # <<>> /\ ~ValidPattern(Lower(query.q))
        THEN [exc |-> "re.error", listing |-> <<>>, files |-> <<>>,
              results_total |-> 0, results_current |-> 0,
              num_pages |-> 0, page_number |-> 0, page_items |-> <<>>]
        ELSE [exc |-> page.exc, listing |-> listing, files |-> files,
              results_total |-> Len(listing), results_current |-> Len(files),
              num_pages |-> num_pages(Len(files)),
              page_number |-> page.number, page_items |-> page.object_list]

\* the query parameters a request may carry; "" and <<>> stand for a
\* parameter that is absent or empty
SortParams == { [o |-> "", ot |-> ""], [o |-> "filename_lower", ot |-> "asc"] }

SearchParams == { <<>>, <<4>>, <<7>> }

TypeParams == { "", "Image", "Folder" }

DateParams == { "", "today", "thismonth", "thisyear", "past7days", "lastyear" }

FormatParams == { <<>>, <<2>> }

PageParams ==
    { [kind |-> "absent", n |-> 0], [kind |-> "nan", n |-> 0] }
      \cup { [kind |-> "int", n |-> k] : k \in 0..MaxPageArg }

Queries ==
    { [o |-> s.o, ot |-> s.ot, q |-> q, filter_type |-> ft, filter_date |-> fd,
       type |-> ff, p |-> pg] :
        s \in SortParams, q \in SearchParams, ft \in TypeParams,
        fd \in DateParams, ff \in FormatParams, pg \in PageParams }

\* the current times and the offsets of local time considered:
\* 2024-01-01 00:30:00 UTC and 2024-06-15 12:00:00 UTC; UTC-5 and UTC
NowSet == { 1704069000, 1718452800 }

TzSet == { -18000, 0 }

\* the files a directory may hold, at time t: a folder "aa" a year old, an
\* image "a" of now, a document "Ab" without a date, a hidden image ".a",
\* the version "a_b.a" of an image, an image "b" eight days old
Catalogue(t) ==
    << [filename |-> <<1, 1>>, filetype |-> "Folder", date |-> t - 31536000,
        format |-> <<>>],
       [filename |-> <<1>>, filetype |-> "Image", date |-> t, format |-> <<1>>],
       [filename |-> <<3, 2>>, filetype |-> "Document", date |-> NoDate,
        format |-> <<1, 2>>],
       [filename |-> <<5, 1>>, filetype |-> "Image", date |-> t, format |-> <<1>>],
       [filename |-> <<1, 6, 2, 5, 1>>, filetype |-> "Image", date |-> t,
        format |-> <<1>>],
       [filename |-> <<2>>, filetype |-> "Image", date |-> t - 691200,
        format |-> <<1>>] >>

RECURSIVE Pick(_, _, _)
Pick(cat, chosen, i) ==
    IF i > Len(cat) THEN <<>>
    ELSE (IF i \in chosen THEN <<cat[i]>> ELSE <<>>) \o Pick(cat, chosen, i + 1)

\* the directories of at most MaxListing entries
Directories(t) ==
    { Pick(Catalogue(t), chosen, 1) :
        chosen \in { c \in SUBSET (1..Len(Catalogue(t))) : Cardinality(c) <= MaxListing } }

NoQuery ==
    [o |-> "", ot |-> "", q |-> <<>>, filter_type |-> "", filter_date |-> "",
     type |-> <<>>, p |-> [kind |-> "absent", n |-> 0]]

NoBrowse ==
    [called |-> FALSE, query |-> NoQuery, exc |-> "none", listing |-> <<>>,
     files |-> <<>>, results_total |-> 0, results_current |-> 0, num_pages |-> 0,
     page_number |-> 0, page_items |-> <<>>]

\* no browse request is made: a fixed clock and an empty directory
InitBrowseAtRest ==
    /\ now = 1718452800
    /\ tzOffset = 0
    /\ dirEntries = <<>>
    /\ browseRet = NoBrowse

InitBrowse ==
    /\ now \in NowSet
    /\ tzOffset \in TzSet
    /\ dirEntries \in Directories(now)
    /\ browseRet = NoBrowse

\* a browse request with the given query
Browse(query) ==
    /\ browseRet' = [called |-> TRUE, query |-> query] @@ browse(query)
    /\ UNCHANGED <<now, tzOffset, dirEntries>>

(***************************************************************************)
(* _upload_file, one storage call or signal per step.                      *)
(*                                                                         *)
(* Character codes as above, and 8 " ".  A path is a directory (the site's *)
(* directory joined with the folder, or UPLOAD_TEMPDIR), a file name and   *)
(* the number of the suffix the storage added to the name (0: none).       *)
(***************************************************************************)
uploadVars == <<fs, uploads, OVERWRITE_EXISTING, DEFAULT_PERMISSIONS>>

\* the names of the uploaded files as the client sends them: "a", "A", "b "
RawNames == { <<1>>, <<3>>, <<2, 8>> }

\* str.replace(" ", "_")
ReplaceSpaces(str) == [i \in 1..Len(str) |-> IF str[i] = 8 THEN 6 ELSE str[i]]

\* filebrowser.utils.convert_filename with CONVERT_FILENAME on:
\* value.replace(" ", "_").lower()
convert_filename(value) == Lower(ReplaceSpaces(value))

NormNames == { convert_filename(r) : r \in RawNames }

Dirs == {"site", "temp"}

Uploads == 1..NumUploads

AllPaths == [dir : Dirs, name : NormNames, alt : 0..MaxAlt]

NoPath == [dir |-> "none", name |-> <<>>, alt |-> 0]

\* what a path holds
NoEntry == [kind |-> "none", content |-> 0, mode |-> "none"]

DirEntry == [kind |-> "dir", content |-> 0, mode |-> "default"]

\* a file with the content of upload `content` (0: a file that was there before)
FileEntry(content) == [kind |-> "file", content |-> content, mode |-> "default"]

\* os.path.join(path, file_name)
JoinPath(dir, name) == [dir |-> dir, name |-> name, alt |-> 0]

\* storage.exists(path)
exists(path) == fs[path].kind # "none"

\* storage.isdir(path)
isdir(path) == fs[path].kind = "dir"

\* the paths storage.save(path, content) may store under: path itself if
\* nothing is there, else the same name with a suffix no entry has yet
AvailablePaths(path) ==
    IF ~exists(path) THEN {path}
    ELSE { q \in AllPaths : q.dir = path.dir /\ q.name = path.name /\ q.alt > 0
                             /\ ~exists(q) }

\* the locals of a request that is not made yet
IdleUpload ==
    [pc |-> "idle", raw |-> <<>>, temporary |-> FALSE, file_name |-> <<>>,
     file_path |-> NoPath, file_already_exists |-> FALSE, uploadedfile |-> NoPath,
     f |-> NoPath, events |-> <<>>, fs0 |-> [q \in AllPaths |-> NoEntry],
     result |-> [kind |-> "none", success |-> FALSE, filename |-> <<>>, alt |-> 0,
                 temp_filename |-> NoPath]]

\* the response of a request
Response(kind, success, filename, alt, temp_filename) ==
    [kind |-> kind, success |-> success, filename |-> filename, alt |-> alt,
     temp_filename |-> temp_filename]

InitUploadAtRest ==
    /\ fs = [q \in AllPaths |-> NoEntry]
    /\ uploads = [u \in Uploads |-> IdleUpload]
    /\ OVERWRITE_EXISTING = FALSE
    /\ DEFAULT_PERMISSIONS = "None"

\* the site's directory holds, under each name, nothing, a directory or a
\* file; the temporary directory is empty
InitUpload ==
    /\ fs \in { g \in [AllPaths -> {NoEntry, DirEntry, FileEntry(0)}] :
                   \A q \in AllPaths : (q.dir # "site" \/ q.alt # 0) => g[q] = NoEntry }
    /\ uploads = [u \in Uploads |-> IdleUpload]
    /\ OVERWRITE_EXISTING \in BOOLEAN
    /\ DEFAULT_PERMISSIONS \in {"None", "mode"}

\* a request arrives: not a POST (nothing is returned), without a file or
\* with several (400), or with one file, for the folder or for UPLOAD_TEMPDIR;
\* the requests are numbered as they arrive, and fs0 keeps what the storage
\* held then
UploadStart(u, request) ==
    /\ uploads[u].pc = "idle"
    /\ \A v \in Uploads : v < u => uploads[v].pc # "idle"
    /\ uploads' = [uploads EXCEPT ![u] =
          IF request.method # "POST"
          THEN [@ EXCEPT !.pc = "done",
                         !.result = Response("none", FALSE, <<>>, 0, NoPath)]
          ELSE IF request.nfiles # 1
          THEN [@ EXCEPT !.pc = "done",
                         !.result = Response("bad_request", FALSE, <<>>, 0, NoPath)]
          ELSE [@ EXCEPT !.pc = "exists", !.raw = request.name,
                         !.temporary = request.temporary, !.fs0 = fs]]
    /\ UNCHANGED <<fs, OVERWRITE_EXISTING, DEFAULT_PERMISSIONS>>

\* file_name = convert_filename(filedata.name); file_path = join(path, file_name)
\* file_already_exists = self.storage.exists(file_path)
UploadExists(u) ==
    /\ uploads[u].pc = "exists"
    /\ LET file_name == convert_filename(uploads[u].raw)
           file_path == JoinPath(IF uploads[u].temporary THEN "temp" ELSE "site", file_name)
       IN  uploads' = [uploads EXCEPT ![u] =
             [@ EXCEPT !.pc = "isdir", !.file_name = file_name, !.file_path = file_path,
                       !.file_already_exists = exists(file_path),
                       !.events = Append(@, "exists")]]
    /\ UNCHANGED <<fs, OVERWRITE_EXISTING, DEFAULT_PERMISSIONS>>

\* the check for a collision with a directory left out
UploadIsdir_NoCheck(u) ==
    /\ uploads[u].pc = "isdir"
    /\ uploads' = [uploads EXCEPT ![u] = [@ EXCEPT !.pc = "pre_upload"]]
    /\ UNCHANGED <<fs, OVERWRITE_EXISTING, DEFAULT_PERMISSIONS>>

\* if file_already_exists and self.storage.isdir(file_path):
\*     return HttpResponse(json.dumps({'success': False, 'filename': file_name}))
UploadIsdir(u) ==
    /\ uploads[u].pc = "isdir"
    /\ uploads' = [uploads EXCEPT ![u] =
          IF ~uploads[u].file_already_exists
          THEN [@ EXCEPT !.pc = "pre_upload"]
          ELSE IF isdir(uploads[u].file_path)
          THEN [@ EXCEPT !.pc = "done", !.events = Append(@, "isdir"),
                         !.result = Response("json", FALSE, uploads[u].file_name, 0, NoPath)]
          ELSE [@ EXCEPT !.pc = "pre_upload", !.events = Append(@, "isdir")]]
    /\ UNCHANGED <<fs, OVERWRITE_EXISTING, DEFAULT_PERMISSIONS>>

\* the pre_upload signal not sent
UploadPreSignal_NotSent(u) ==
    /\ uploads[u].pc = "pre_upload"
    /\ uploads' = [uploads EXCEPT ![u] = [@ EXCEPT !.pc = "save"]]
    /\ UNCHANGED <<fs, OVERWRITE_EXISTING, DEFAULT_PERMISSIONS>>

\* signals.filebrowser_pre_upload.send(...)
UploadPreSignal(u) ==
    /\ uploads[u].pc = "pre_upload"
    /\ uploads' = [uploads EXCEPT ![u] =
          [@ EXCEPT !.pc = "save", !.events = Append(@, "pre_upload")]]
    /\ UNCHANGED <<fs, OVERWRITE_EXISTING, DEFAULT_PERMISSIONS>>

\* a storage whose save writes to the path it is given, whatever is there
handle_file_upload_Overwrites(u) ==
    /\ uploads[u].pc = "save"
    /\ fs' = [fs EXCEPT ![uploads[u].file_path] = FileEntry(u)]
    /\ uploads' = [uploads EXCEPT ![u] =
          [@ EXCEPT !.pc = "move", !.uploadedfile = uploads[u].file_path,
                    !.events = Append(@, "save")]]
    /\ UNCHANGED <<OVERWRITE_EXISTING, DEFAULT_PERMISSIONS>>

\* uploadedfile = handle_file_upload(path, filedata, site=self):
\* site.storage.save(os.path.join(path, file.name), file)
handle_file_upload(u) ==
    /\ uploads[u].pc = "save"
    /\ \E target \in AvailablePaths(uploads[u].file_path) :
          /\ fs' = [fs EXCEPT ![target] = FileEntry(u)]
          /\ uploads' = [uploads EXCEPT ![u] =
                [@ EXCEPT !.pc = "move", !.uploadedfile = target,
                          !.events = Append(@, "save")]]
    /\ UNCHANGED <<OVERWRITE_EXISTING, DEFAULT_PERMISSIONS>>

\* storage.move(old, new, allow_overwrite=True): the storage afterwards, or
\* "OSError" when old is gone or new is a directory
move(old, new) ==
    IF old = new THEN [exc |-> "none", fs |-> fs]
    ELSE IF ~exists(old) \/ isdir(new) THEN [exc |-> "OSError", fs |-> fs]
    ELSE [exc |-> "none", fs |-> [fs EXCEPT ![new] = fs[old], ![old] = NoEntry]]

\* the move made whenever a file was there, whatever the overwrite policy
UploadMove_AlwaysOverwrite(u) ==
    /\ uploads[u].pc = "move"
    /\ IF uploads[u].file_already_exists
       THEN LET moved == move(uploads[u].uploadedfile, uploads[u].file_path)
            IN  IF moved.exc # "none"
                THEN /\ uploads' = [uploads EXCEPT ![u] =
                           [@ EXCEPT !.pc = "done", !.events = Append(@, "move"),
                                     !.result = Response("raised", FALSE, <<>>, 0, NoPath)]]
                     /\ fs' = fs
                ELSE /\ uploads' = [uploads EXCEPT ![u] =
                           [@ EXCEPT !.pc = "chmod", !.events = Append(@, "move"),
                                     !.f = uploads[u].file_path]]
                     /\ fs' = moved.fs
       ELSE /\ uploads' = [uploads EXCEPT ![u] =
                  [@ EXCEPT !.pc = "chmod", !.f = uploads[u].uploadedfile]]
            /\ fs' = fs
    /\ UNCHANGED <<OVERWRITE_EXISTING, DEFAULT_PERMISSIONS>>

\* the overwrite policy ignored: the file stays where the storage saved it
UploadMove_NeverOverwrite(u) ==
    /\ uploads[u].pc = "move"
    /\ uploads' = [uploads EXCEPT ![u] =
          [@ EXCEPT !.pc = "chmod", !.f = uploads[u].uploadedfile]]
    /\ UNCHANGED <<fs, OVERWRITE_EXISTING, DEFAULT_PERMISSIONS>>

\* if file_already_exists and OVERWRITE_EXISTING:
\*     self.storage.move(uploadedfile, file_path, allow_overwrite=True)
\*     f = FileObject(file_path, site=self)
\* else:
\*     filedata.name = os.path.relpath(uploadedfile, path)
\*     f = FileObject(uploadedfile, site=self)
UploadMove(u) ==
    /\ uploads[u].pc = "move"
    /\ IF uploads[u].file_already_exists /\ OVERWRITE_EXISTING
       THEN LET moved == move(uploads[u].uploadedfile, uploads[u].file_path)
            IN  IF moved.exc # "none"
                THEN /\ uploads' = [uploads EXCEPT ![u] =
                           [@ EXCEPT !.pc = "done", !.events = Append(@, "move"),
                                     !.result = Response("raised", FALSE, <<>>, 0, NoPath)]]
                     /\ fs' = fs
                ELSE /\ uploads' = [uploads EXCEPT ![u] =
                           [@ EXCEPT !.pc = "chmod", !.events = Append(@, "move"),
                                     !.f = uploads[u].file_path]]
                     /\ fs' = moved.fs
       ELSE /\ uploads' = [uploads EXCEPT ![u] =
                  [@ EXCEPT !.pc = "chmod", !.f = uploads[u].uploadedfile]]
            /\ fs' = fs
    /\ UNCHANGED <<OVERWRITE_EXISTING, DEFAULT_PERMISSIONS>>

\* if DEFAULT_PERMISSIONS is not None: os.chmod(f.path_full, DEFAULT_PERMISSIONS)
UploadChmod(u) ==
    /\ uploads[u].pc = "chmod"
    /\ IF DEFAULT_PERMISSIONS = "None"
       THEN /\ uploads' = [uploads EXCEPT ![u] = [@ EXCEPT !.pc = "post_upload"]]
            /\ fs' = fs
       ELSE IF ~exists(uploads[u].f)
       THEN /\ uploads' = [uploads EXCEPT ![u] =
                  [@ EXCEPT !.pc = "done", !.events = Append(@, "chmod"),
                            !.result = Response("raised", FALSE, <<>>, 0, NoPath)]]
            /\ fs' = fs
       ELSE /\ uploads' = [uploads EXCEPT ![u] =
                  [@ EXCEPT !.pc = "post_upload", !.events = Append(@, "chmod")]]
            /\ fs' = [fs EXCEPT ![uploads[u].f].mode = "set"]
    /\ UNCHANGED <<OVERWRITE_EXISTING, DEFAULT_PERMISSIONS>>

\* signals.filebrowser_post_upload.send(...), then the response
\* {'success': True, 'filename': f.filename, 'temp_filename': temp_filename}
UploadPostSignal(u) ==
    /\ uploads[u].pc = "post_upload"
    /\ uploads' = [uploads EXCEPT ![u] =
          [@ EXCEPT !.pc = "done", !.events = Append(@, "post_upload"),
                    !.result = Response("json", TRUE, uploads[u].f.name, uploads[u].f.alt,
                                        IF uploads[u].temporary
                                        THEN JoinPath("temp", uploads[u].file_name)
                                        ELSE NoPath)]]
    /\ UNCHANGED <<fs, OVERWRITE_EXISTING, DEFAULT_PERMISSIONS>>

\* the requests that may arrive
UploadRequests ==
    [method : {"POST"}, nfiles : {1}, name : RawNames, temporary : BOOLEAN]
      \cup [method : {"GET"}, nfiles : {1}, name : {<<1>>}, temporary : {FALSE}]
      \cup [method : {"POST"}, nfiles : {0, 2}, name : {<<1>>}, temporary : {FALSE}]

(***************************************************************************)
(* createdir, delete and the rename of detail on the directory uploads go  *)
(* to: what each does to the storage, in one step.  Their signals and      *)
(* responses do not touch the storage.                                     *)
(***************************************************************************)
\* the entries of the site's directory a request can name
SitePaths == { JoinPath("site", n) : n \in NormNames }

\* createdir: self.storage.makedirs(server_path); an OSError when the path
\* exists, caught by the view
UploadDirCreatedir(path) ==
    /\ ~exists(path)
    /\ fs' = [fs EXCEPT ![path] = DirEntry]
    /\ UNCHANGED <<uploads, OVERWRITE_EXISTING, DEFAULT_PERMISSIONS>>

\* delete: fileobject.delete() removes the file or the directory; an OSError
\* when nothing is there, caught by the view
UploadDirDelete(path) ==
    /\ exists(path)
    /\ fs' = [fs EXCEPT ![path] = NoEntry]
    /\ UNCHANGED <<uploads, OVERWRITE_EXISTING, DEFAULT_PERMISSIONS>>

\* detail: self.storage.move(fileobject.path, new_path) of a file or a
\* directory, without allow_overwrite: an OSError when new_path exists,
\* caught by the view
UploadDirRename(path, new_path) ==
    /\ exists(path)
    /\ ~exists(new_path)
    /\ fs' = [fs EXCEPT ![new_path] = fs[path], ![path] = NoEntry]
    /\ UNCHANGED <<uploads, OVERWRITE_EXISTING, DEFAULT_PERMISSIONS>>

(***************************************************************************)
(* createdir, delete and detail (custom action, rename), one signal,       *)
(* storage call or action call per step.  A signal listener, a storage     *)
(* call and a custom action may raise: "EACCES" is OSError with errno 13,  *)
(* "EIO" any other OSError, "Exception" an exception that is no OSError.   *)
(***************************************************************************)
opsVars == <<store, req, reqCount>>

\* the entries of the directory: the file "x", the name "y" it may be
\* renamed to, the directory "d" that may be created
EntryNames == {"x", "y", "d"}

OSErrors == {"EACCES", "EIO"}

\* what a signal listener or a custom action may raise; "none": it returns
ListenerOutcomes == {"none", "EACCES", "EIO", "Exception"}

\* what a storage call may raise
StorageOutcomes == {"none", "EACCES", "EIO"}

Signals ==
    {"pre_createdir", "post_createdir", "pre_delete", "post_delete",
     "pre_apply", "post_apply", "pre_rename", "post_rename"}

StorageCalls == {"makedirs", "delete_versions", "delete", "move"}

\* the calls a request makes inside its try block, in the order of the code,
\* as long as none raises
Plan_MutateFirst(request) ==
    IF ~request.valid THEN <<>>
    ELSE IF request.kind = "createdir"
    THEN <<"makedirs", "pre_createdir", "post_createdir">>
    ELSE IF request.kind = "delete"
    THEN <<"delete_versions", "delete", "pre_delete", "post_delete">>
    ELSE (IF request.action THEN <<"pre_apply", "action", "post_apply">> ELSE <<>>)
           \o (IF request.new_name # request.name
               THEN <<"delete_versions", "move", "pre_rename", "post_rename">>
               ELSE <<>>)

\* createdir: POST with a valid form; delete: request.GET is not empty;
\* detail: POST with a valid form, `if action_name:` then
\* `if new_name != fileobject.filename:`
Plan(request) ==
    IF ~request.valid THEN <<>>
    ELSE IF request.kind = "createdir"
    THEN <<"pre_createdir", "makedirs", "post_createdir">>
    ELSE IF request.kind = "delete"
    THEN <<"pre_delete", "delete_versions", "delete", "post_delete">>
    ELSE (IF request.action THEN <<"pre_apply", "action", "post_apply">> ELSE <<>>)
           \o (IF request.new_name # request.name
               THEN <<"pre_rename", "delete_versions", "move", "post_rename">>
               ELSE <<>>)

\* the storage after a storage call that did not raise
Effect(call, request, st) ==
    IF call = "makedirs"
    THEN [st EXCEPT !.entries = @ \cup {request.name}]
    ELSE IF call = "delete_versions"
    THEN [st EXCEPT !.versions = @ \ {request.name}]
    ELSE IF call = "delete"
    THEN [st EXCEPT !.entries = @ \ {request.name}]
    ELSE [st EXCEPT !.entries = (@ \ {request.name}) \cup {request.new_name}]

NoOutcome == [kind |-> "none", error |-> ""]

\* as HandleException, with the OSError of delete shown as a form error
HandleException_DeleteSurfaces(kind, exc) ==
    IF exc \notin OSErrors THEN [kind |-> "raised", error |-> exc]
    ELSE IF kind = "createdir"
    THEN [kind |-> "form",
          error |-> IF exc = "EACCES" THEN "Permission denied."
                                      ELSE "Error creating folder."]
    ELSE [kind |-> "form", error |-> "Error."]

\* what the request returns when a call in its try block raises:
\* `except OSError` of createdir (errno 13 told apart), of delete (pass, then
\* the redirect) and of detail; any other exception leaves the view
HandleException(kind, exc) ==
    IF exc \notin OSErrors THEN [kind |-> "raised", error |-> exc]
    ELSE IF kind = "createdir"
    THEN [kind |-> "form",
          error |-> IF exc = "EACCES" THEN "Permission denied."
                                      ELSE "Error creating folder."]
    ELSE IF kind = "delete"
    THEN [kind |-> "redirect", error |-> ""]
    ELSE [kind |-> "form", error |-> "Error."]

IdleRequest ==
    [status |-> "idle", kind |-> "none", valid |-> FALSE, name |-> "x",
     new_name |-> "x", action |-> FALSE, pc |-> 0, events |-> <<>>,
     store0 |-> [entries |-> {}, versions |-> {}], message |-> FALSE,
     action_response |-> FALSE, outcome |-> NoOutcome]

\* the requests that may arrive for the storage st; a valid form of
\* createdir and of detail names no entry that exists, and the file of
\* delete and detail is one the listing shows
OpRequests(st) ==
    { [kind |-> "createdir", valid |-> v, name |-> "d", new_name |-> "d",
       action |-> FALSE] : v \in { b \in BOOLEAN : b => "d" \notin st.entries } }
      \cup { [kind |-> "delete", valid |-> v, name |-> n, new_name |-> n,
              action |-> FALSE] : v \in BOOLEAN, n \in st.entries }
      \cup UNION { { [kind |-> "detail", valid |-> v, name |-> n, new_name |-> m,
                       action |-> a] :
                        v \in BOOLEAN, m \in {n} \cup ({"x", "y"} \ st.entries),
                        a \in BOOLEAN } : n \in st.entries \ {"d"} }

InitOpsAtRest ==
    /\ store = [entries |-> {}, versions |-> {}]
    /\ req = IdleRequest
    /\ reqCount = 0

\* the directory holds the file "x", with or without versions of it
InitOps ==
    /\ store \in { [entries |-> {"x"}, versions |-> v] : v \in {{}, {"x"}} }
    /\ req = IdleRequest
    /\ reqCount = 0

\* the call request k is about to make
CurrentCall == Plan(req)[req.pc]

AtCall(calls) ==
    /\ req.status = "running"
    /\ req.pc <= Len(Plan(req))
    /\ CurrentCall \in calls

\* the request after its current call raised exc or, with "none", returned
AfterCall(exc, response) ==
    LET r == req
        call == CurrentCall
        events == Append(r.events, [call |-> call, exc |-> exc])
    IN  IF exc = "none"
        THEN [r EXCEPT !.pc = @ + 1, !.events = events,
                       !.message = @ \/ call \in {"post_createdir", "post_delete",
                                                  "post_rename"},
                       !.action_response = @ \/ response]
        ELSE [r EXCEPT !.status = "done", !.events = events,
                       !.outcome = HandleException(r.kind, exc)]

\* a request arrives once the one before it is answered; store0 keeps what
\* the storage held then
StartRequest(request) ==
    /\ req.status \in {"idle", "done"}
    /\ reqCount < MaxRequests
    /\ request \in OpRequests(store)
    /\ req' = [IdleRequest EXCEPT !.status = "running", !.kind = request.kind,
                                  !.valid = request.valid, !.name = request.name,
                                  !.new_name = request.new_name,
                                  !.action = request.action, !.pc = 1,
                                  !.store0 = store]
    /\ reqCount' = reqCount + 1
    /\ UNCHANGED store

\* signals.filebrowser_*.send(...): a listener may raise
SendSignal ==
    /\ AtCall(Signals)
    /\ \E exc \in ListenerOutcomes : req' = AfterCall(exc, FALSE)
    /\ UNCHANGED <<store, reqCount>>

\* self.storage.makedirs / fileobject.delete_versions / fileobject.delete /
\* self.storage.move: done, or refused with an OSError and nothing changed
StorageCall ==
    /\ AtCall(StorageCalls)
    /\ \E exc \in StorageOutcomes :
          /\ req' = AfterCall(exc, FALSE)
          /\ store' = IF exc = "none" THEN Effect(CurrentCall, req, store) ELSE store
    /\ UNCHANGED reqCount

\* action_response = action(request=request, fileobjects=[fileobject]):
\* the action returns None or an HttpResponse, or raises
CallAction ==
    /\ AtCall({"action"})
    /\ \E exc \in ListenerOutcomes, response \in BOOLEAN :
          /\ response => exc = "none"
          /\ req' = AfterCall(exc, response)
    /\ UNCHANGED <<store, reqCount>>

\* the end of the view when nothing raised: createdir redirects (a request
\* that is no valid POST renders the form), delete redirects, detail returns
\* the action's HttpResponse or redirects
Respond ==
    /\ req.status = "running"
    /\ req.pc = Len(Plan(req)) + 1
    /\ req' = [req EXCEPT !.status = "done",
                          !.outcome =
                             IF req.kind = "delete" THEN [kind |-> "redirect", error |-> ""]
                             ELSE IF ~req.valid THEN [kind |-> "form", error |-> ""]
                             ELSE IF req.action_response
                             THEN [kind |-> "response", error |-> ""]
                             ELSE [kind |-> "redirect", error |-> ""]]
    /\ UNCHANGED <<store, reqCount>>

vars == <<regVars, siteVars, browseVars, uploadVars, opsVars>>


Init ==
    /\ InitRegistry
    /\ InitSites
    /\ InitBrowseAtRest
    /\ InitUploadAtRest
    /\ InitOpsAtRest

\* the action registry of one site in use, everything else at rest
StepRegistry ==
    \/ \E a \in ActionObjs, n \in Names \cup {NoName} :
          add_action(a, n) /\ UNCHANGED <<siteVars, browseVars, uploadVars, opsVars>>
    \/ \E n \in Names : disable_action(n) /\ UNCHANGED <<siteVars, browseVars, uploadVars, opsVars>>
    \/ \E n \in Names : GetAction(n) /\ UNCHANGED <<siteVars, browseVars, uploadVars, opsVars>>
    \/ ListActions /\ UNCHANGED <<siteVars, browseVars, uploadVars, opsVars>>
    \/ \E fo \in FileTypes :
          ApplicableActions(fo) /\ UNCHANGED <<siteVars, browseVars, uploadVars, opsVars>>

SpecRegistry == Init /\ [][StepRegistry]_vars

\* the site registry in use, everything else at rest
StepSites ==
    \/ \E n \in SiteNames, a \in AppNames : NewSite(n, a) /\ UNCHANGED <<regVars, browseVars, uploadVars, opsVars>>
    \/ \E a \in AppNames, n \in SiteNames, s \in SiteIds :
          RegisterSite(a, n, s) /\ UNCHANGED <<regVars, browseVars, uploadVars, opsVars>>
    \/ \E s \in SiteIds : Deploy(s) /\ UNCHANGED <<regVars, browseVars, uploadVars, opsVars>>
    \/ \E a \in AppNames : GetDefaultSite(a) /\ UNCHANGED <<regVars, browseVars, uploadVars, opsVars>>

SpecSites == Init /\ [][StepSites]_vars

\* browse requests on a directory, at some time, everything else at rest
InitBrowseSpec ==
    /\ InitRegistry
    /\ InitSites
    /\ InitBrowse
    /\ InitUploadAtRest
    /\ InitOpsAtRest

\* a request changes nothing that a later request reads, so one request is
\* followed from each directory
StepBrowse ==
    /\ ~browseRet.called
    /\ \E query \in Queries : Browse(query) /\ UNCHANGED <<regVars, siteVars, uploadVars, opsVars>>

SpecBrowse == InitBrowseSpec /\ [][StepBrowse]_vars

\* upload requests handled one after the other, everything else at rest
InitUploadSpec ==
    /\ InitRegistry
    /\ InitSites
    /\ InitBrowseAtRest
    /\ InitUpload
    /\ InitOpsAtRest

\* no request other than u is being handled
Alone(u) == \A v \in Uploads \ {u} : uploads[v].pc \in {"idle", "done"}

OtherVars == <<regVars, siteVars, browseVars, opsVars>>

StepUploadSeq ==
    \/ \E u \in Uploads, request \in UploadRequests :
          Alone(u) /\ UploadStart(u, request) /\ UNCHANGED OtherVars
    \/ \E u \in Uploads : Alone(u) /\ UploadExists(u) /\ UNCHANGED OtherVars
    \/ \E u \in Uploads : Alone(u) /\ UploadIsdir(u) /\ UNCHANGED OtherVars
    \/ \E u \in Uploads : Alone(u) /\ UploadPreSignal(u) /\ UNCHANGED OtherVars
    \/ \E u \in Uploads : Alone(u) /\ handle_file_upload(u) /\ UNCHANGED OtherVars
    \/ \E u \in Uploads : Alone(u) /\ UploadMove(u) /\ UNCHANGED OtherVars
    \/ \E u \in Uploads : Alone(u) /\ UploadChmod(u) /\ UNCHANGED OtherVars
    \/ \E u \in Uploads : Alone(u) /\ UploadPostSignal(u) /\ UNCHANGED OtherVars

SpecUploadSeq == InitUploadSpec /\ [][StepUploadSeq]_vars

\* two upload requests into the site's directory handled at the same time:
\* the steps of the two are interleaved in every way
Racers == {1, 2}

RaceRequests == { r \in UploadRequests : r.method = "POST" /\ r.nfiles = 1 /\ ~r.temporary }

StepUploadConc ==
    \/ \E u \in Racers, request \in RaceRequests :
          UploadStart(u, request) /\ UNCHANGED OtherVars
    \/ \E u \in Racers : UploadExists(u) /\ UNCHANGED OtherVars
    \/ \E u \in Racers : UploadIsdir(u) /\ UNCHANGED OtherVars
    \/ \E u \in Racers : UploadPreSignal(u) /\ UNCHANGED OtherVars
    \/ \E u \in Racers : handle_file_upload(u) /\ UNCHANGED OtherVars
    \/ \E u \in Racers : UploadMove(u) /\ UNCHANGED OtherVars
    \/ \E u \in Racers : UploadChmod(u) /\ UNCHANGED OtherVars
    \/ \E u \in Racers : UploadPostSignal(u) /\ UNCHANGED OtherVars

SpecUploadConc == InitUploadSpec /\ [][StepUploadConc]_vars

\* one upload request into the site's directory while createdir, delete and
\* rename requests for the same directory are handled: their storage calls
\* fall between the steps of the upload in every way
Uploader == 1

StepUploadOps ==
    \/ \E request \in RaceRequests :
          UploadStart(Uploader, request) /\ UNCHANGED OtherVars
    \/ UploadExists(Uploader) /\ UNCHANGED OtherVars
    \/ UploadIsdir(Uploader) /\ UNCHANGED OtherVars
    \/ UploadPreSignal(Uploader) /\ UNCHANGED OtherVars
    \/ handle_file_upload(Uploader) /\ UNCHANGED OtherVars
    \/ UploadMove(Uploader) /\ UNCHANGED OtherVars
    \/ UploadChmod(Uploader) /\ UNCHANGED OtherVars
    \/ UploadPostSignal(Uploader) /\ UNCHANGED OtherVars
    \/ \E path \in SitePaths : UploadDirCreatedir(path) /\ UNCHANGED OtherVars
    \/ \E path \in SitePaths : UploadDirDelete(path) /\ UNCHANGED OtherVars
    \/ \E path, new_path \in SitePaths :
          UploadDirRename(path, new_path) /\ UNCHANGED OtherVars

SpecUploadOps == InitUploadSpec /\ [][StepUploadOps]_vars

\* createdir, delete and detail requests handled one after the other,
\* everything else at rest
InitFileOpsSpec ==
    /\ InitRegistry
    /\ InitSites
    /\ InitBrowseAtRest
    /\ InitUploadAtRest
    /\ InitOps

RestVars == <<regVars, siteVars, browseVars, uploadVars>>

StepFileOps ==
    \/ \E request \in OpRequests(store) : StartRequest(request) /\ UNCHANGED RestVars
    \/ SendSignal /\ UNCHANGED RestVars
    \/ StorageCall /\ UNCHANGED RestVars
    \/ CallAction /\ UNCHANGED RestVars
    \/ Respond /\ UNCHANGED RestVars

SpecFileOps == InitFileOpsSpec /\ [][StepFileOps]_vars

(***************************************************************************)
(* Claims about the action registry.                                       *)
(***************************************************************************)
\* the names of a list of (name, action) pairs
ListedNames(listing) == { listing[i][1] : i \in 1..Len(listing) }

ListedPairs(listing) == { listing[i] : i \in 1..Len(listing) }

\* C1: once an action A was registered under n and n was then disabled,
\* whatever was done to other names since, n is not in the `actions`
\* listing while get_action(n) still returns A; get_action(n) raises
\* KeyError only for a name that was never registered.
C1_DisabledStillLookedUp ==
    /\ \A n \in disabledSince :
          /\ n \notin ListedNames(actions)
          /\ get_action(n) = [exc |-> "none", val |-> lastAdded[n]]
    /\ \A n \in Names : (get_action(n).exc = "KeyError") <=> (lastAdded[n] = None)
    /\ (ret.op = "get_action" /\ ret.name \in disabledSince)
          => (ret.exc = "none" /\ ret.val = lastAdded[ret.name])
    /\ (ret.op = "get_action" /\ ret.exc = "KeyError") => lastAdded[ret.name] = None
    /\ ret.op = "actions" => disabledSince \cap ListedNames(ret.val) = {}

\* a disabled name was looked up while another name is active
C1_Witness ==
    /\ ret.op = "get_action"
    /\ ret.name \in disabledSince
    /\ ret.exc = "none"
    /\ \E m \in Names : m # ret.name /\ DictHas(_actions, m)

\* C2: whatever the order of the registrations and disables, the `actions`
\* listing holds exactly the active (name, action) pairs, in strictly
\* ascending lexicographic order of name (so each name once), and a second
\* read without a registry change in between returns what the first did.
C2_ListingSorted ==
    /\ \A i \in 1..Len(actions) : \A j \in 1..Len(actions) :
          i < j => StrLess(actions[i][1], actions[j][1])
    /\ ListedPairs(actions) =
          { <<n, lastAdded[n]>> : n \in { m \in Names : lastAdded[m] # None
                                                       /\ m \notin disabledSince } }
    /\ ret.op = "actions" => ret.val = actions

\* a listing was read whose order differs from the order of insertion, with
\* a name disabled
C2_Witness ==
    /\ ret.op = "actions"
    /\ Len(ret.val) >= 2
    /\ ret.val # _actions
    /\ disabledSince # {}

\* C10: disable_action(name) removes the name from the active table only,
\* when it is there; when it is not (never registered, or disabled before)
\* it raises KeyError and changes neither table.
C10_DisableOnlyActive ==
    [][\A n \in Names :
         (ret'.op = "disable_action" /\ ret'.name = n) =>
            IF DictHas(_actions, n)
            THEN /\ ret'.exc = "none"
                 /\ ListedPairs(_actions') = ListedPairs(_actions) \ {<<n, DictGet(_actions, n)>>}
                 /\ actions' = DictDel(actions, n)
                 /\ _global_actions' = _global_actions
            ELSE /\ ret'.exc = "KeyError"
                 /\ _actions' = _actions
                 /\ _global_actions' = _global_actions]_vars

\* a disable of an already disabled name has raised KeyError
C10_Witness ==
    /\ ret.op = "disable_action"
    /\ ret.exc = "KeyError"
    /\ ret.name \in disabledSince
    /\ _actions # <<>>

\* C11: add_action(action, name) makes the name resolve to that action in
\* the lookup table and in the active listing, whatever either held under
\* the name before (another action, or nothing because the name was never
\* registered or was disabled); the entries under every other name are as
\* they were.
C11_RegisterOverwrites ==
    /\ [](ret.op = "add_action" =>
            /\ ret.exc = "none"
            /\ get_action(ret.name) = [exc |-> "none", val |-> ret.arg]
            /\ <<ret.name, ret.arg>> \in ListedPairs(actions)
            /\ \A i \in 1..Len(actions) : actions[i][1] = ret.name => actions[i][2] = ret.arg)
    /\ [][ret'.op = "add_action" =>
            LET n == ret'.name
            IN  /\ _global_actions'[n] = ret'.arg
                /\ DictHas(_actions', n) /\ DictGet(_actions', n) = ret'.arg
                /\ \A m \in Names \ {n} :
                      /\ _global_actions'[m] = _global_actions[m]
                      /\ DictHas(_actions', m) <=> DictHas(_actions, m)
                      /\ DictHas(_actions, m) => DictGet(_actions', m) = DictGet(_actions, m)
                /\ Len(_actions') = Cardinality(DictKeys(_actions) \cup {n})]_vars

\* a name that was disabled was registered again, with another action than
\* the one the lookup table held, while another name is active
C11_Witness ==
    /\ ret.op = "add_action"
    /\ ret.prev.active = None
    /\ ret.prev.global \notin {None, ret.arg}
    /\ DictGet(_actions, ret.name) = ret.arg
    /\ \E m \in Names : m # ret.name /\ DictHas(_actions, m)

\* the positions of the active listing whose action applies to fileobject
ApplicablePositions(fileobject) ==
    { i \in 1..Len(actions) : applies_to(actions[i][2], fileobject) }

\* the k-th smallest member of a set of positions
KthOf(positions, k) ==
    CHOOSE i \in positions : Cardinality({ j \in positions : j <= i }) = k

\* C12: in every state of the registry and for every file object,
\* applicable_actions is exactly the items of the `actions` listing whose
\* applies_to is true of the file object, in the order of the listing; it
\* holds no disabled name, and an action that was registered without an
\* applies_to of its own is in it whenever it is active, whatever the file
\* object.
C12_ApplicableIsFilteredListing ==
    /\ \A fo \in FileTypes :
          LET res == applicable_actions(fo)
              pos == ApplicablePositions(fo)
          IN  /\ Len(res) = Cardinality(pos)
              /\ \A k \in 1..Len(res) : res[k] = actions[KthOf(pos, k)]
              /\ ListedNames(res) \cap disabledSince = {}
              /\ \A i \in 1..Len(actions) :
                    actions[i][2] = "g" => actions[i] \in ListedPairs(res)
    /\ ret.op = "applicable_actions" =>
          /\ ret.exc = "none"
          /\ Len(ret.val) = Cardinality(ApplicablePositions(ret.arg))
          /\ \A k \in 1..Len(ret.val) :
                ret.val[k] = actions[KthOf(ApplicablePositions(ret.arg), k)]
          /\ \A i \in 1..Len(ret.val) : has_attrs[ret.val[i][2]]

\* for a document, some active action applies and some does not, in a
\* listing that is not in insertion order, with a name disabled
C12_Witness ==
    /\ ret.op = "applicable_actions"
    /\ ret.arg = "Document"
    /\ Len(ret.val) >= 1
    /\ Len(ret.val) < Len(actions)
    /\ actions # _actions
    /\ disabledSince # {}

(***************************************************************************)
(* Claims about the site registry.                                         *)
(***************************************************************************)
\* _sites_cache[app_name][site_name], or NoSite where the key holds nothing
CacheEntry(cache, app_name, site_name) ==
    IF app_name \in DOMAIN cache /\ site_name \in DOMAIN cache[app_name]
    THEN cache[app_name][site_name]
    ELSE NoSite

SiteKeys == AppNames \X SiteNames

\* C8: after any sequence of registrations, those done by constructing a
\* FileBrowserSite included, a key (app_name, site_name) resolves to the site
\* most recently registered under it, in the cache and, where the key is
\* deployed, in get_site_dict; a registration changes the entry of its own
\* key only.
C8_LastRegistrationWins ==
    /\ [](\A k \in SiteKeys :
            /\ CacheEntry(_sites_cache, k[1], k[2]) = lastRegistered[k]
            /\ (get_site_dict(k[1]).exc = "none" /\ k[2] \in DOMAIN get_site_dict(k[1]).val)
                  => get_site_dict(k[1]).val[k[2]] = lastRegistered[k])
    /\ [][\A k \in SiteKeys :
            CacheEntry(_sites_cache', k[1], k[2]) # CacheEntry(_sites_cache, k[1], k[2])
              => /\ siteRet'.op = "register_site"
                 /\ \A k2 \in SiteKeys \ {k} :
                       CacheEntry(_sites_cache', k2[1], k2[2])
                         = CacheEntry(_sites_cache, k2[1], k2[2])]_vars

\* a second site was registered under the key of the default site, which is
\* deployed, and another key holds a site too
C8_Witness ==
    /\ lastRegistered[<<"filebrowser", "filebrowser">>] > 1
    /\ get_site_dict("filebrowser").exc = "none"
    /\ "filebrowser" \in DOMAIN get_site_dict("filebrowser").val
    /\ \E k \in SiteKeys : k # <<"filebrowser", "filebrowser">> /\ lastRegistered[k] # NoSite

\* the names of app_name that are registered and deployed
DeployedNames(app_name) ==
    IF app_name \in DOMAIN app_dict /\ app_name \in DOMAIN _sites_cache
    THEN SeqElems(app_dict[app_name]) \cap DOMAIN _sites_cache[app_name]
    ELSE {}

\* C9: for every namespace with a registered and deployed site,
\* get_default_site(namespace) returns a site of that namespace: the one
\* named "filebrowser" if there is one, else the first deployed one.
C9_DefaultSiteOfNamespace ==
    \A ns \in AppNames :
        DeployedNames(ns) # {} =>
            /\ get_default_site(ns).exc = "none"
            /\ get_default_site(ns).val =
                  IF "filebrowser" \in DeployedNames(ns)
                  THEN _sites_cache[ns]["filebrowser"]
                  ELSE _sites_cache[ns][app_dict[ns][1]]

(***************************************************************************)
(* Claims about browse.                                                    *)
(***************************************************************************)
\* how many entries of the directory the exclusion predicate lets through
Survivors == Cardinality({ i \in 1..Len(dirEntries) : filter_browse(dirEntries[i]) })

\* C6: whatever the directory and the type, date, format and search
\* filters, a browse that completes records results_current <=
\* results_total, results_total being the number of entries the exclusion
\* predicate lets through and results_current the number the filters keep,
\* and every Folder of the pre-filter listing is among the kept entries,
\* also when the search term does not match its name.
C6_FoldersKept ==
    (browseRet.called /\ browseRet.exc = "none") =>
        /\ browseRet.results_current <= browseRet.results_total
        /\ browseRet.results_total = Survivors
        /\ browseRet.results_current = Len(browseRet.files)
        /\ SeqElems(browseRet.files) \subseteq SeqElems(browseRet.listing)
        /\ \A i \in 1..Len(dirEntries) :
              (filter_browse(dirEntries[i]) /\ dirEntries[i].filetype = "Folder")
                => dirEntries[i] \in SeqElems(browseRet.files)

\* a search that the folder's name does not match, with a type filter for
\* images, kept the folder and dropped another entry
C6_Witness ==
    /\ browseRet.called
    /\ browseRet.exc = "none"
    /\ browseRet.query.q = <<4>>
    /\ browseRet.query.filter_type = "Image"
    /\ browseRet.results_current < browseRet.results_total
    /\ \E i \in 1..Len(browseRet.files) :
          /\ browseRet.files[i].filetype = "Folder"
          /\ ~Contains(Lower(browseRet.files[i].filename), <<2>>)

\* the number of pages of `count` items: the least k >= 1 with
\* k * LIST_PER_PAGE >= count
PageCount(count) ==
    CHOOSE k \in 1..(count + 1) :
        /\ k * LIST_PER_PAGE >= count
        /\ \A j \in 1..(k - 1) : j * LIST_PER_PAGE < count

\* C7: for every filtered sequence, the empty one included, and every
\* requested page (absent: the default 1, not a number, below 1, in range,
\* beyond the last page) the pagination of browse does not fail: it gives
\* the requested page when 1 <= page <= page count and the last page
\* otherwise; the empty sequence has one page, which is empty.
C7_PageClamped ==
    (browseRet.called /\ browseRet.exc # "re.error") =>
        LET count == Len(browseRet.files)
            arg == browseRet.query.p
            requested == IF arg.kind = "absent" THEN 1 ELSE arg.n
            inRange == arg.kind # "nan" /\ 1 <= requested /\ requested <= PageCount(count)
            number == IF inRange THEN requested ELSE PageCount(count)
        IN  /\ browseRet.exc = "none"
            /\ browseRet.num_pages = PageCount(count)
            /\ browseRet.page_number = number
            /\ browseRet.page_items =
                  [i \in 1..(MinOf(number * LIST_PER_PAGE, count)
                               - (number - 1) * LIST_PER_PAGE)
                     |-> browseRet.files[(number - 1) * LIST_PER_PAGE + i]]
            /\ count = 0 => (browseRet.page_number = 1 /\ browseRet.page_items = <<>>)

\* a page beyond the last of two pages was asked for and the second page
\* was given
C7_Witness ==
    /\ browseRet.called
    /\ browseRet.exc = "none"
    /\ browseRet.query.p.kind = "int"
    /\ browseRet.query.p.n > browseRet.num_pages
    /\ browseRet.num_pages = 2
    /\ browseRet.page_number = 2
    /\ browseRet.page_items # <<>>

(***************************************************************************)
(* Claims about _upload_file, for requests handled one after the other.    *)
(***************************************************************************)
\* request u is answered and no later request has arrived: the storage is
\* as u left it
JustDone(u) ==
    /\ uploads[u].pc = "done"
    /\ uploads[u].file_path # NoPath
    /\ \A v \in Uploads : v > u => uploads[v].pc = "idle"

\* the position of an event in the events of a request (0: not there)
EventIndex(u, event) ==
    IF event \in SeqElems(uploads[u].events)
    THEN CHOOSE i \in 1..Len(uploads[u].events) : uploads[u].events[i] = event
    ELSE 0

\* the path the response of request u names
ReportedPath(u) ==
    [dir |-> uploads[u].file_path.dir, name |-> uploads[u].result.filename,
     alt |-> uploads[u].result.alt]

\* C3: when the normalized file name is the path of a directory, the upload
\* answers success = false, without raising, and makes no storage mutation
\* (no save, no move, no chmod): the directory and all the rest are as before.
C3_DirectoryCollision ==
    \A u \in Uploads :
        (JustDone(u) /\ uploads[u].fs0[uploads[u].file_path].kind = "dir") =>
            /\ uploads[u].result.kind = "json"
            /\ uploads[u].result.success = FALSE
            /\ SeqElems(uploads[u].events) \cap {"save", "move", "chmod"} = {}
            /\ fs = uploads[u].fs0
            /\ fs[uploads[u].file_path] = DirEntry

\* an upload of "b " met the directory "b_" and was refused
C3_Witness ==
    \E u \in Uploads :
        /\ JustDone(u)
        /\ uploads[u].raw = <<2, 8>>
        /\ uploads[u].fs0[uploads[u].file_path].kind = "dir"
        /\ uploads[u].result.kind = "json"
        /\ ~uploads[u].result.success

\* C4: when a file that is no directory is at the candidate path and the
\* overwrite policy is off, an upload handled alone succeeds, its content is
\* stored under another name, chosen by the storage and reported as the
\* final name, and the original file is unchanged: both files are there.
C4_CoexistWhenNoOverwrite ==
    \A u \in Uploads :
        (/\ JustDone(u)
         /\ uploads[u].fs0[uploads[u].file_path].kind = "file"
         /\ ~OVERWRITE_EXISTING) =>
            /\ uploads[u].result.kind = "json"
            /\ uploads[u].result.success
            /\ ReportedPath(u) # uploads[u].file_path
            /\ ReportedPath(u) = uploads[u].uploadedfile
            /\ uploads[u].fs0[ReportedPath(u)] = NoEntry
            /\ fs[ReportedPath(u)].kind = "file"
            /\ fs[ReportedPath(u)].content = u
            /\ \A q \in AllPaths \ {ReportedPath(u)} : fs[q] = uploads[u].fs0[q]

\* the second upload of the name "a" met a file and was stored beside it
C4_Witness ==
    /\ ~OVERWRITE_EXISTING
    /\ JustDone(2)
    /\ uploads[2].fs0[uploads[2].file_path].kind = "file"
    /\ uploads[2].result.success
    /\ fs[ReportedPath(2)].content = 2
    /\ fs[uploads[2].file_path].kind = "file"

\* C5: when a file that is no directory is at the candidate path and the
\* overwrite policy is on, an upload handled alone saves to a path chosen by
\* the storage and then moves that file onto the candidate path: afterwards
\* the candidate path holds the new content, the final name reported is the
\* normalized name and nothing is left at the intermediate path.
C5_ReplaceWhenOverwrite ==
    \A u \in Uploads :
        (/\ JustDone(u)
         /\ uploads[u].fs0[uploads[u].file_path].kind = "file"
         /\ OVERWRITE_EXISTING) =>
            /\ uploads[u].result.kind = "json"
            /\ uploads[u].result.success
            /\ 0 < EventIndex(u, "save")
            /\ EventIndex(u, "save") < EventIndex(u, "move")
            /\ uploads[u].uploadedfile # uploads[u].file_path
            /\ uploads[u].fs0[uploads[u].uploadedfile] = NoEntry
            /\ fs[uploads[u].uploadedfile] = NoEntry
            /\ fs[uploads[u].file_path].kind = "file"
            /\ fs[uploads[u].file_path].content = u
            /\ ReportedPath(u) = uploads[u].file_path
            /\ uploads[u].result.filename = convert_filename(uploads[u].raw)
            /\ \A q \in AllPaths \ {uploads[u].file_path} : fs[q] = uploads[u].fs0[q]

\* the upload of "A" replaced the content of the file "a"
C5_Witness ==
    \E u \in Uploads :
        /\ OVERWRITE_EXISTING
        /\ JustDone(u)
        /\ uploads[u].raw = <<3>>
        /\ uploads[u].fs0[uploads[u].file_path].kind = "file"
        /\ uploads[u].result.success
        /\ fs[uploads[u].file_path].content = u
        /\ "move" \in SeqElems(uploads[u].events)

(***************************************************************************)
(* Claims about get_filterdate.                                            *)
(***************************************************************************)
\* the timestamps the buckets are asked about: now, a year before, eight
\* days before, the epoch
SampleTimes == { now, now - 365 * 86400, now - 8 * 86400, 0 }

\* C13: whatever the current time and the offset of local time from UTC,
\* the bucket 'today' is true of the timestamp now and false of the
\* timestamp one year before now, and the bucket 'thisyear' is true of a
\* timestamp exactly when its year (read in UTC) is the current (local) year.
C13_TodayAndThisYear ==
    /\ get_filterdate("today", now)
    /\ ~get_filterdate("today", now - 365 * 86400)
    /\ \A t \in SampleTimes :
          get_filterdate("thisyear", t) <=> (gmtime(t).year = localtime.year)

\* what does hold: a timestamp a year old is not of today, thisyear compares
\* the UTC year of the timestamp with the local year, and today is true of
\* now when local time is UTC
DateBucketsAsCoded ==
    /\ ~get_filterdate("today", now - 365 * 86400)
    /\ \A t \in SampleTimes :
          get_filterdate("thisyear", t) <=> (gmtime(t).year = localtime.year)
    /\ tzOffset = 0 => get_filterdate("today", now)

(***************************************************************************)
(* Claims about browse and its query parameters.                           *)
(***************************************************************************)
\* C14: whatever the sort key and order, the type, date and format filters,
\* the search term and the page number of the query, unknown and malformed
\* values included, browse completes with a listing and a page.
C14_BrowseNeverFails ==
    browseRet.called =>
        /\ browseRet.exc = "none"
        /\ browseRet.page_number \in 1..browseRet.num_pages

\* what does hold: browse fails only on a search term that is no valid
\* pattern; an unknown date bucket and a bad page number do not make it fail
BrowseFailsOnlyOnPattern ==
    browseRet.called =>
        /\ (browseRet.exc # "none") <=>
              (browseRet.query.q # <<>> /\ ~ValidPattern(Lower(browseRet.query.q)))
        /\ browseRet.exc = "none" => browseRet.page_number \in 1..browseRet.num_pages

(***************************************************************************)
(* Claims about the signals of _upload_file.                               *)
(***************************************************************************)
\* in the events of request u, every event of `firsts` that occurred did so
\* before every event of `thens` that occurred
EventsBefore(u, firsts, thens) ==
    \A a \in firsts, b \in thens :
        (EventIndex(u, a) > 0 /\ EventIndex(u, b) > 0) => EventIndex(u, a) < EventIndex(u, b)

\* C16: in every upload the pre_upload signal is sent before the collision
\* query (exists, isdir), the save, the move and the chmod, and the
\* post_upload signal after all of them; no post_upload signal is sent
\* without an earlier pre_upload signal of the same upload.
C16_SignalsBracketQuery ==
    \A u \in Uploads :
        /\ \A e \in {"exists", "isdir", "save", "move", "chmod"} :
              EventIndex(u, e) > 0 =>
                 (EventIndex(u, "pre_upload") > 0
                    /\ EventIndex(u, "pre_upload") < EventIndex(u, e))
        /\ EventsBefore(u, {"exists", "isdir", "save", "move", "chmod"}, {"post_upload"})
        /\ EventIndex(u, "post_upload") > 0 => EventIndex(u, "pre_upload") > 0

\* C16, as the code has it: the collision query (exists, isdir) comes first,
\* and the pre_upload signal is sent after it, only when the upload is not
\* refused; the save, the move and the chmod occur only after the
\* pre_upload signal and the post_upload signal only after all of them; no
\* post_upload signal is sent without an earlier pre_upload signal of the
\* same upload, and a successful upload has sent both.
C16_SignalsBracketMutation ==
    \A u \in Uploads :
        /\ EventIndex(u, "pre_upload") > 0 => EventIndex(u, "exists") > 0
        /\ EventsBefore(u, {"exists", "isdir"}, {"pre_upload"})
        /\ \A e \in {"save", "move", "chmod"} :
              EventIndex(u, e) > 0 =>
                 (EventIndex(u, "pre_upload") > 0
                    /\ EventIndex(u, "pre_upload") < EventIndex(u, e))
        /\ EventsBefore(u, {"exists", "isdir", "pre_upload", "save", "move", "chmod"},
                        {"post_upload"})
        /\ EventIndex(u, "post_upload") > 0 =>
              (EventIndex(u, "pre_upload") > 0 /\ EventIndex(u, "save") > 0)
        /\ (uploads[u].pc = "done" /\ uploads[u].result.success) =>
              (EventIndex(u, "pre_upload") > 0 /\ EventIndex(u, "post_upload") > 0)
        /\ (uploads[u].pc = "done" /\ uploads[u].result.kind = "json"
              /\ ~uploads[u].result.success) =>
              (EventIndex(u, "pre_upload") = 0 /\ EventIndex(u, "post_upload") = 0)

\* an upload that replaced a file has sent both signals around the save,
\* the move and the chmod
C16_Witness ==
    \E u \in Uploads :
        /\ uploads[u].pc = "done"
        /\ uploads[u].events =
              <<"exists", "isdir", "pre_upload", "save", "move", "chmod", "post_upload">>

(***************************************************************************)
(* Claims about createdir, delete and detail.                              *)
(***************************************************************************)
\* the position of a call in the events of the request at hand (0: not made)
CallIndex(call) ==
    IF \E i \in 1..Len(req.events) : req.events[i].call = call
    THEN CHOOSE i \in 1..Len(req.events) : req.events[i].call = call
    ELSE 0

Made(call) == CallIndex(call) > 0

Returned(call) == Made(call) /\ req.events[CallIndex(call)].exc = "none"

Raised(call) == Made(call) /\ req.events[CallIndex(call)].exc # "none"

\* how often a call was made
TimesMade(call) == Cardinality({ i \in 1..Len(req.events) : req.events[i].call = call })

\* the signals and the storage mutation of each operation
PreSignal ==
    IF req.kind = "createdir" THEN "pre_createdir"
    ELSE IF req.kind = "delete" THEN "pre_delete" ELSE "pre_rename"

PostSignal ==
    IF req.kind = "createdir" THEN "post_createdir"
    ELSE IF req.kind = "delete" THEN "post_delete" ELSE "post_rename"

Mutations ==
    IF req.kind = "createdir" THEN {"makedirs"}
    ELSE IF req.kind = "delete" THEN {"delete_versions", "delete"}
    ELSE {"delete_versions", "move"}

\* the storage once the operation of the request is done
Mutated ==
    IF req.kind = "createdir"
    THEN [entries |-> req.store0.entries \cup {req.name}, versions |-> req.store0.versions]
    ELSE IF req.kind = "delete"
    THEN [entries |-> req.store0.entries \ {req.name},
          versions |-> req.store0.versions \ {req.name}]
    ELSE [entries |-> (req.store0.entries \ {req.name}) \cup {req.new_name},
          versions |-> req.store0.versions \ {req.name}]

\* C15: in createdir, delete and rename no storage mutation is made before
\* the pre-signal has been sent and has returned, and the post-signal is
\* sent only once the mutation is complete; when a listener of the
\* pre-signal raises, no mutation is made and the storage is as before; when
\* a listener of the post-signal raises, the mutation stays.
C15_SignalMutateSignal ==
    req.kind \in {"createdir", "delete", "detail"} =>
        /\ \A m \in Mutations :
              Made(m) => (Returned(PreSignal) /\ CallIndex(PreSignal) < CallIndex(m))
        /\ Made(PostSignal) =>
              /\ \A m \in Mutations : Returned(m) /\ CallIndex(m) < CallIndex(PostSignal)
              /\ store = Mutated
        /\ Raised(PreSignal) =>
              /\ \A m \in Mutations : ~Made(m)
              /\ ~Made(PostSignal)
              /\ store = req.store0
        /\ Raised(PostSignal) => (store = Mutated /\ store # req.store0)
        /\ store # req.store0 => \E m \in Mutations : Returned(m)

\* the second request, a rename of a file with versions, was made and a
\* listener of post_rename raised: the file has its new name
C15_Witness ==
    /\ reqCount = 2
    /\ req.status = "done"
    /\ req.kind = "detail"
    /\ Raised("post_rename")
    /\ req.name \in req.store0.versions
    /\ req.new_name \in store.entries
    /\ req.name \notin store.entries

\* the storage mutation of createdir or of the rename was refused
MutationRaised == \E m \in Mutations : Raised(m)

\* how a refused storage mutation is reported: a form error, for createdir
\* 'Permission denied.' exactly for errno 13; no success message, no
\* post-signal, the refused call made once
ReportedAsFailed ==
    /\ req.outcome.kind = "form"
    /\ req.outcome.error # ""
    /\ req.kind = "createdir" =>
          (req.outcome.error = "Permission denied."
             <=> \E m \in Mutations : Raised(m) /\ req.events[CallIndex(m)].exc = "EACCES")
    /\ ~req.message
    /\ ~Made(PostSignal)
    /\ \A m \in Mutations : TimesMade(m) <= 1

\* C17: when the storage mutation of createdir or of a rename fails with
\* permission denied or another I/O error, the operation is reported as
\* failed (a form error, permission denied told apart for createdir), with
\* no success message, no post-signal and no retry, and the storage is as it
\* was before the operation: a failed rename leaves the entry and its
\* versions as they were.
C17_FailedMutationLeavesNothing ==
    (req.kind \in {"createdir", "detail"} /\ req.status = "done" /\ MutationRaised) =>
        /\ ReportedAsFailed
        /\ store = req.store0

\* what does hold: the failure is reported as claimed, a failed createdir
\* changes nothing, and a failed rename leaves the entry under its old name
FailedMutationAsCoded ==
    (req.kind \in {"createdir", "detail"} /\ req.status = "done" /\ MutationRaised) =>
        /\ ReportedAsFailed
        /\ store.entries = req.store0.entries
        /\ req.kind = "createdir" => store = req.store0
        /\ Raised("delete_versions") => store = req.store0

\* C18: when detail applies a custom action and the call of the action
\* raises, whatever it raises (an OSError included), the exception leaves
\* the view: it is not turned into a form error, the action is not called
\* again, no post_apply signal is sent and no rename is made.
C18_ActionFailurePropagates ==
    (req.kind = "detail" /\ req.status = "done" /\ Raised("action")) =>
        /\ req.outcome.kind = "raised"
        /\ req.outcome.error = req.events[CallIndex("action")].exc
        /\ TimesMade("action") = 1
        /\ ~Made("post_apply")
        /\ \A c \in {"pre_rename", "delete_versions", "move", "post_rename"} : ~Made(c)
        /\ store = req.store0

\* what does hold: an exception of the action that is no OSError leaves
\* the view, an OSError becomes the form error 'Error.'; either way there is
\* no second call, no post_apply signal and no rename
ActionFailureAsCoded ==
    (req.kind = "detail" /\ req.status = "done" /\ Raised("action")) =>
        /\ IF req.events[CallIndex("action")].exc \in OSErrors
           THEN req.outcome = [kind |-> "form", error |-> "Error."]
           ELSE req.outcome.kind = "raised"
        /\ TimesMade("action") = 1
        /\ ~Made("post_apply")
        /\ \A c \in {"pre_rename", "delete_versions", "move", "post_rename"} : ~Made(c)
        /\ store = req.store0

(***************************************************************************)
(* Claims about uploads handled at the same time.                          *)
(***************************************************************************)
\* the paths storage.save may store under, in the storage st
AvailableIn(st, path) ==
    IF st[path].kind = "none" THEN {path}
    ELSE { q \in AllPaths : q.dir = path.dir /\ q.name = path.name /\ q.alt > 0
                             /\ st[q].kind = "none" }

\* permissions set on path when DEFAULT_PERMISSIONS is not None
WithMode(st, path) ==
    IF DEFAULT_PERMISSIONS = "None" THEN st ELSE [st EXCEPT ![path].mode = "set"]

\* the storages upload u of the file `raw` may leave when it is handled
\* alone, from start to end, on the storage st
AloneFinals(st, u, raw) ==
    LET path == JoinPath("site", convert_filename(raw))
    IN  IF st[path].kind = "dir" THEN {st}
        ELSE { LET saved == [st EXCEPT ![target] = FileEntry(u)]
               IN  IF st[path].kind = "file" /\ OVERWRITE_EXISTING
                   THEN WithMode([saved EXCEPT ![path] = saved[target],
                                               ![target] = NoEntry], path)
                   ELSE WithMode(saved, target)
               : target \in AvailableIn(st, path) }

\* the storages the uploads first and then second may leave when one is
\* handled after the other
SequentialFinals(st, first, second) ==
    UNION { AloneFinals(mid, second, uploads[second].raw) :
              mid \in AloneFinals(st, first, uploads[first].raw) }

BothDone == \A u \in Racers : uploads[u].pc = "done" /\ uploads[u].file_path # NoPath

\* the storage is one that the two uploads, handled one after the other in
\* either order, may leave
SequentialOutcome ==
    fs \in SequentialFinals(uploads[1].fs0, 1, 2) \cup SequentialFinals(uploads[1].fs0, 2, 1)

\* upload u found nothing at the candidate path, and the storage then gave
\* its file another name: the path was taken between the check and the save
StaleCheck(u) ==
    /\ ~uploads[u].file_already_exists
    /\ uploads[u].uploadedfile # uploads[u].file_path

\* C19: two uploads handled at the same time can leave a storage that the
\* two, handled one after the other in either order, cannot leave; this
\* happens only with the overwrite policy on, when the two file names
\* normalize to the same name and nothing is at the candidate path: both
\* find that the path does not exist, so neither moves its file into place,
\* and the two contents end up under two different names instead of one
\* replacing the other.
C19_RaceBetweenCheckAndMove ==
    (BothDone /\ ~SequentialOutcome) =>
        /\ OVERWRITE_EXISTING
        /\ uploads[1].file_path = uploads[2].file_path
        /\ uploads[1].fs0[uploads[1].file_path] = NoEntry
        /\ \A u \in Racers : ~uploads[u].file_already_exists /\ uploads[u].result.success
        /\ \E u \in Racers : StaleCheck(u)
        /\ uploads[1].uploadedfile # uploads[2].uploadedfile
        /\ \A u \in Racers : fs[uploads[u].uploadedfile].content = u
        /\ "move" \notin SeqElems(uploads[1].events) \cup SeqElems(uploads[2].events)

\* "A" and "a" were uploaded at the same time with the overwrite policy on
\* and no file "a" there: both are stored, under two names, which no order
\* of the two uploads handled alone gives
C19_Witness ==
    /\ BothDone
    /\ ~SequentialOutcome
    /\ OVERWRITE_EXISTING
    /\ uploads[1].raw # uploads[2].raw
    /\ uploads[1].file_name = uploads[2].file_name
    /\ uploads[1].fs0[uploads[1].file_path] = NoEntry
    /\ fs[uploads[1].uploadedfile].content = 1
    /\ fs[uploads[2].uploadedfile].content = 2
    /\ uploads[1].uploadedfile # uploads[2].uploadedfile

(***************************************************************************)
(* Claims about the filter criteria of browse.                             *)
(***************************************************************************)
\* the four criteria of a query, each passing when the query does not
\* carry it
TypePasses(entry, query) ==
    query.filter_type = "" \/ entry.filetype = query.filter_type

DatePasses(entry, query) ==
    query.filter_date = ""
      \/ get_filterdate(query.filter_date, IF entry.date = NoDate THEN 0 ELSE entry.date)

FormatPasses(entry, query) ==
    query.type = <<>>
      \/ \E i \in 0..(Len(entry.format) - Len(query.type)) :
            SubSeq(entry.format, i + 1, i + Len(query.type)) = query.type

SearchPasses(entry, query) ==
    query.q = <<>> \/ RegexSearch(Lower(query.q), Lower(entry.filename))

\* C20: in a browse that completes, an entry of the pre-filter listing that
\* is no folder is in the result exactly when the four criteria pass, each
\* passing when absent: the type filter is the entry's file type, the date
\* bucket accepts the entry's modified time (0 when it has none), the
\* format filter is contained in the entry's format, the search term matches
\* the lower-cased name.  The criteria being independent, the entries kept
\* are those that each single criterion, asked alone, keeps.
C20_FourCriteria ==
    (browseRet.called /\ browseRet.exc = "none") =>
        LET q == browseRet.query
        IN  /\ \A i \in 1..Len(browseRet.listing) :
                  LET e == browseRet.listing[i]
                  IN  e.filetype # "Folder" =>
                         (e \in SeqElems(browseRet.files)
                            <=> (/\ SearchPasses(e, q)
                                 /\ FormatPasses(e, q)
                                 /\ DatePasses(e, q)
                                 /\ TypePasses(e, q)))
            /\ \A i \in 1..Len(browseRet.listing) :
                  LET e == browseRet.listing[i]
                  IN  e.filetype # "Folder" =>
                         (KeepEntry(e, q)
                            <=> (/\ KeepEntry(e, [NoQuery EXCEPT !.filter_type = q.filter_type])
                                 /\ KeepEntry(e, [NoQuery EXCEPT !.filter_date = q.filter_date])
                                 /\ KeepEntry(e, [NoQuery EXCEPT !.type = q.type])
                                 /\ KeepEntry(e, [NoQuery EXCEPT !.q = q.q])))

\* a search for "B" with a type filter and a date bucket kept the image "b"
\* and dropped the document "Ab", which the search alone matches and which
\* has no modified time
C20_Witness ==
    /\ browseRet.called
    /\ browseRet.exc = "none"
    /\ browseRet.query.q = <<4>>
    /\ browseRet.query.filter_type = "Image"
    /\ browseRet.query.filter_date = "thisyear"
    /\ \E e \in SeqElems(browseRet.files) : e.filename = <<2>>
    /\ \E e \in SeqElems(browseRet.listing) :
          /\ e.filename = <<3, 2>>
          /\ e.date = NoDate
          /\ e \notin SeqElems(browseRet.files)

\* the storage step of delete: delete_versions, then delete
DeleteStorageRaised == Raised("delete_versions") \/ Raised("delete")

\* every call of the try block of delete was made and returned
DeleteCompleted ==
    \A i \in 1..Len(Plan(req)) :
        /\ Len(req.events) >= i
        /\ req.events[i] = [call |-> Plan(req)[i], exc |-> "none"]

\* C21: when delete_versions or delete of a delete request raises an OSError
\* (errno 13 or any other), the request still ends with the redirect to the
\* browse listing, with no error shown and nothing raised to the caller, and
\* neither the post_delete signal nor the success message was emitted; a
\* delete whose calls all returned has sent post_delete exactly once and
\* carries the success message, and the entry and its versions are gone.
C21_DeleteFailureSwallowed ==
    (req.kind = "delete" /\ req.status = "done") =>
        /\ req.outcome = [kind |-> "redirect", error |-> ""]
             \/ \E i \in 1..Len(req.events) :
                   /\ req.events[i].call \in Signals
                   /\ req.events[i].exc = "Exception"
        /\ DeleteStorageRaised =>
              /\ req.outcome = [kind |-> "redirect", error |-> ""]
              /\ ~Made("post_delete")
              /\ ~req.message
              /\ \A c \in {"delete_versions", "delete"} : TimesMade(c) <= 1
        /\ (req.valid /\ DeleteCompleted) =>
              /\ TimesMade("post_delete") = 1
              /\ req.message
              /\ store = Mutated
        /\ req.message => (Returned("post_delete") /\ Returned("delete"))

\* a delete of a file with versions: delete_versions returned, delete was
\* refused with an I/O error that is not errno 13, and the request redirected
C21_Witness ==
    /\ req.kind = "delete"
    /\ req.status = "done"
    /\ req.name \in req.store0.versions
    /\ Returned("delete_versions")
    /\ Raised("delete")
    /\ req.events[CallIndex("delete")].exc = "EIO"
    /\ req.outcome.kind = "redirect"
    /\ req.name \in store.entries

(***************************************************************************)
(* Claims about an upload among createdir, delete and rename requests.     *)
(***************************************************************************)
\* request u makes the call of storage.move in this step
MovesIntoPlace(u) ==
    /\ uploads[u].pc = "move"
    /\ uploads'[u].pc # "move"
    /\ uploads[u].file_already_exists
    /\ OVERWRITE_EXISTING

\* request u saves the uploaded content in this step
SavesContent(u) == uploads[u].pc = "save" /\ uploads'[u].pc = "move"

\* C22: however the storage calls of createdir, delete and rename requests
\* fall between the steps of an upload, the path the upload saves to is no
\* directory when it saves, and the path it moves the saved file to is no
\* directory at the moment of the move: what the collision check saw still
\* holds.
C22_NoMoveOntoDirectory ==
    [][\A u \in Uploads :
          /\ SavesContent(u) => ~isdir(uploads'[u].uploadedfile)
          /\ MovesIntoPlace(u) => ~isdir(uploads[u].file_path)]_vars

\* what does hold: the save never goes to a path that holds anything, and
\* the path of a move was no directory when the collision check was made
MoveTargetAsCoded ==
    [][\A u \in Uploads :
          /\ SavesContent(u) => ~exists(uploads'[u].uploadedfile)
          /\ MovesIntoPlace(u) => "isdir" \in { uploads[u].events[i] : i \in 1..Len(uploads[u].events) }]_vars

(***************************************************************************)
(* Claims about concurrent uploads without overwriting.                    *)
(***************************************************************************)
\* request u was answered with {'success': True, ...}
Succeeded(u) ==
    /\ uploads[u].pc = "done"
    /\ uploads[u].result.kind = "json"
    /\ uploads[u].result.success

\* request u has saved its content
Saved(u) == "save" \in { uploads[u].events[i] : i \in 1..Len(uploads[u].events) }

\* C23: with OVERWRITE_EXISTING off and a storage whose save picks an unused
\* path atomically, however the steps of concurrent uploads into one
\* directory interleave (same or different normalized names): the content of
\* every upload that was saved stays at the path it was saved to, two
\* uploads never hold the same path, the name each successful upload reports
\* is the path that holds its content, and every file that was there when a
\* request arrived is still there with its content.
C23_NoOverwriteKeepsEveryUpload ==
    ~OVERWRITE_EXISTING =>
        /\ \A u \in Uploads :
              Saved(u) =>
                 /\ fs[uploads[u].uploadedfile].kind = "file"
                 /\ fs[uploads[u].uploadedfile].content = u
        /\ \A u, v \in Uploads :
              (Saved(u) /\ Saved(v) /\ u # v) => uploads[u].uploadedfile # uploads[v].uploadedfile
        /\ \A u \in Uploads :
              Succeeded(u) =>
                 /\ ReportedPath(u) = uploads[u].uploadedfile
                 /\ fs[ReportedPath(u)].content = u
        /\ \A u \in Uploads, q \in AllPaths :
              (uploads[u].pc # "idle" /\ uploads[u].fs0[q].kind # "none") =>
                 /\ fs[q].kind = uploads[u].fs0[q].kind
                 /\ fs[q].content = uploads[u].fs0[q].content

\* two uploads of the same normalized name onto a file that was there, the
\* second arrived before the first had saved, and both succeeded
C23_Witness ==
    /\ ~OVERWRITE_EXISTING
    /\ Succeeded(1) /\ Succeeded(2)
    /\ uploads[1].file_path = uploads[2].file_path
    /\ uploads[1].raw # uploads[2].raw
    /\ uploads[1].fs0[uploads[1].file_path] = FileEntry(0)
    /\ uploads[2].fs0 = uploads[1].fs0
    /\ uploads[1].file_already_exists /\ uploads[2].file_already_exists
    /\ uploads[1].uploadedfile # uploads[2].uploadedfile

(***************************************************************************)
(* The two tables of the action registry.                                  *)
(***************************************************************************)
\* the names get_action finds
LookupNames == { n \in Names : _global_actions[n] # None }

\* every (name, action) item of a listing is what get_action(name) returns
LookedUpAsListed(listing) ==
    \A i \in 1..Len(listing) :
        /\ listing[i][1] \in Names
        /\ get_action(listing[i][1]) = [exc |-> "none", val |-> listing[i][2]]

\* C24: after any sequence of add_action and disable_action calls, the keys
\* of _actions are keys of _global_actions, and under every key of _actions
\* the two dicts hold the same action; so get_action finds, under its name,
\* every action that the `actions` property or applicable_actions returns,
\* and returns that same action.
C24_ActiveWithinLookup ==
    /\ DictKeys(_actions) \subseteq LookupNames
    /\ \A n \in DictKeys(_actions) : DictGet(_actions, n) = _global_actions[n]
    /\ LookedUpAsListed(actions)
    /\ \A fo \in FileTypes : LookedUpAsListed(applicable_actions(fo))
    /\ ret.op \in {"actions", "applicable_actions"} => LookedUpAsListed(ret.val)

\* applicable_actions returned an action while another name is disabled and
\* still looked up, and an active name was registered again with another
\* action
C24_Witness ==
    /\ ret.op = "applicable_actions"
    /\ Len(ret.val) >= 1
    /\ \E m \in disabledSince : m \in LookupNames /\ m \notin DictKeys(_actions)
    /\ \E n \in DictKeys(_actions) : n \notin disabledSince /\ FuncName(DictGet(_actions, n)) # n

====
